---- MODULE Spec2Model ----
(***************************************************************************)
(* Caffeine calculator (src/pages/caffeine-calculator.js, first revision   *)
(* of the page, lines 51-1974): the half-life model, the single-dose       *)
(* concentration model, the aggregation at bedtime, the cutoff solver,     *)
(* the intake classifier and the chart series.                             *)
(*                                                                         *)
(* Units.  Clock strings "HH:MM" are minutes of the day (0..1439), '' is   *)
(* NoValue.  A Date is a number of minutes since 00:00 of the day the      *)
(* calculation runs (new Date().toDateString()).  A half-life is a number  *)
(* of minutes.  An amount of caffeine is a fixed-point number of 1/Scale   *)
(* milligram; a dose typed by the user is a whole number of milligrams.    *)
(***************************************************************************)
EXTENDS Integers, Sequences, FiniteSets, TLC

\* ---------------------------------------------------------------- bounds
\* The longest drink list the inputs are drawn from.
MaxDrinks == 2

\* ------------------------------------------------------------- arithmetic
NoValue == 0 - 1                 \* '' (an empty input field), null
MinutesPerHour == 2 * 30
MinutesPerDay == 24 * MinutesPerHour
Scale == 1024 * 1024             \* fixed-point units per milligram
Kilo == 32 * 32

Max(a, b) == IF a >= b THEN a ELSE b
Min(a, b) == IF a <= b THEN a ELSE b

RECURSIVE Pow2(_)
Pow2(n) == IF n = 0 THEN 1 ELSE 2 * Pow2(n - 1)

\* floor(c * f / Scale) for 0 <= c < 2^30 and 0 <= f <= Scale, computed in
\* 32-bit pieces: the product of an amount and a decay factor.
MulFix(c, f) ==
    LET ch == c \div Kilo
        cl == c % Kilo
        fh == f \div Kilo
        fl == f % Kilo
    IN  ch * fh + ((ch * fl + cl * fh + ((cl * fl) \div Kilo)) \div Kilo)

\* floor((a * n) / d) without forming a * n, for a, d > 0 and small n.
MulDiv(a, n, d) == (a \div d) * n + (((a % d) * n) \div d)

\* Math.pow(0.5, j/64) in fixed point, j = 0..64: floor(Scale * 2^(-j/64)).
Pow05Table ==
   << 1048576, 1037280, 1026107, 1015053, 1004119, 993303, 982603, 972019,
      961548, 951190, 940944, 930808, 920781, 910863, 901051, 891345,
      881743, 872245, 862849, 853555, 844360, 835265, 826267, 817367,
      808562, 799852, 791236, 782713, 774282, 765941, 757690, 749529,
      741455, 733468, 725567, 717751, 710019, 702371, 694805, 687321,
      679917, 672593, 665348, 658181, 651091, 644077, 637139, 630276,
      623487, 616770, 610126, 603554, 597053, 590621, 584259, 577965,
      571740, 565581, 559488, 553462, 547500, 541602, 535768, 529997,
      524288 >>

\* The mantissa of Math.pow(0.5, t / halfLife): Scale * 2^(-(t mod H)/H),
\* exact at multiples of H/64 and linearly interpolated between them.
Pow05Mantissa(t, halfLife) ==
    LET r   == t % halfLife
        j   == (r * 64) \div halfLife
        pos == r * 64 - j * halfLife
        hi  == Pow05Table[j + 1]
        lo  == Pow05Table[j + 2]
    IN  hi - (((hi - lo) * pos) \div halfLife)

\* Math.pow(0.5, t / halfLife) as a decay factor (t < halfLife * 31).
Pow05(t, halfLife) ==
    LET q == t \div halfLife
    IN  IF q >= 31 THEN 0 ELSE Pow05Mantissa(t, halfLife) \div Pow2(q)

\* dose * Math.pow(0.5, t / halfLife) for a dose in whole milligrams: the
\* floating-point product keeps the mantissa's precision whatever the
\* exponent, so the mantissa is multiplied before the exponent is applied.
DoseTimesPow05(dose, t, halfLife) ==
    LET q == t \div halfLife
    IN  IF q >= 31 THEN 0
        ELSE (dose * Pow05Mantissa(t, halfLife)) \div Pow2(q)

\* ------------------------------------------------------------- constants
baseHalfLife == 5 * MinutesPerHour       \* hours
safeSleepThreshold == 30                 \* mg
stepMinutes == 10

\* ---------------------------------------------------------- HalfLifeModel
\* Weights are tenths of the input unit (the weight field has step 0.1);
\* convertToMetric yields units of 10^-7 kg so that 0.453592 is exact.
PoundsToKg == 453592             \* 0.453592 kg per pound, in 10^-6
WeightUnit == 1000 * 1000        \* one tenth of a kilogram, in 10^-7 kg

\* Mutant of convertToMetric: pounds are taken for kilograms.
convertToMetricNoPounds(value, type, unit) == value * WeightUnit

convertToMetric(value, type, unit) ==
    IF unit = "metric" THEN value * WeightUnit
    ELSE IF type = "weight" THEN value * PoundsToKg
    ELSE value * WeightUnit

calculateAdjustedHalfLife(info, un) ==
    LET age    == info.age
        weight == convertToMetric(info.weight, "weight", un.weight)
        sex    == info.sex
        afterAge ==
            IF age > 50 THEN baseHalfLife + MinutesPerHour
            ELSE IF age >= 30 /\ age <= 50 THEN baseHalfLife + 30
            ELSE baseHalfLife
        afterWeight ==
            IF weight < 60 * 10 * WeightUnit THEN afterAge + 30
            ELSE IF weight > 90 * 10 * WeightUnit THEN afterAge - 30
            ELSE afterAge
        afterSex ==
            IF sex = "female" THEN afterWeight + 30 ELSE afterWeight
    IN  Max(1 * MinutesPerHour, afterSex)

\* -------------------------------------------------------------- DoseCurve
\* new Date(`${today.toDateString()} ${bedtime}`), moved to the next day
\* when its hour is before 12.
BedDate(bedtimeString) ==
    IF bedtimeString \div MinutesPerHour < 12
    THEN bedtimeString + MinutesPerDay
    ELSE bedtimeString

\* The loop variable of calculateCaffeineCurve is a double advanced by
\* t += 10/60.  After k additions the sum is below the double nearest to
\* k/6 for k in tShort, above it for k in tLong and equal to it otherwise
\* (IEEE-754 double addition, k = 0..288).
tShort == (5..7) \cup (14..28) \cup (59..115) \cup (230..288)
tLong  == {11} \cup (32..55) \cup (119..226)

\* t <= totalHours and t < durationHours for the k-th value of t.
LoopRuns(k, totalHours) ==
    \/ k * stepMinutes < totalHours * MinutesPerHour
    \/ k * stepMinutes = totalHours * MinutesPerHour /\ k \notin tLong
Consuming(k, durationMinutes) ==
    \/ k * stepMinutes < durationMinutes
    \/ k * stepMinutes = durationMinutes /\ k \in tShort

\* One iteration of the loop, for the k-th value of t: acc holds the loop
\* variable caffeine and the points pushed so far.
LoopBody(k, acc, start, durationMinutes, caffeineMg, halfLifeHours) ==
    LET isInstant == durationMinutes < 1
        decayed == MulFix(acc.caffeine, Pow05(stepMinutes, halfLifeHours))
        next ==
          IF isInstant
          THEN IF k = 0 THEN caffeineMg * Scale
               ELSE DoseTimesPow05(caffeineMg, k * stepMinutes, halfLifeHours)
          ELSE IF Consuming(k, durationMinutes)
               THEN decayed + MulDiv(caffeineMg * Scale, stepMinutes,
                                     durationMinutes)
               ELSE decayed
    IN  [caffeine |-> next,
         points |-> Append(acc.points,
                           [time |-> start + k * stepMinutes,
                            caffeine |-> Max(0, next)])]

\* Iterations lo..hi of the loop, in order (split in halves to keep the
\* evaluation shallow).
RECURSIVE LoopRange(_, _, _, _, _, _, _)
LoopRange(lo, hi, acc, start, durationMinutes, caffeineMg, halfLifeHours) ==
    IF lo > hi THEN acc
    ELSE IF lo = hi
    THEN LoopBody(lo, acc, start, durationMinutes, caffeineMg, halfLifeHours)
    ELSE LET mid == (lo + hi) \div 2
             left == LoopRange(lo, mid, acc, start, durationMinutes,
                               caffeineMg, halfLifeHours)
         IN  IF Len(left.points) >= 0      \* the first half runs first
             THEN LoopRange(mid + 1, hi, left, start, durationMinutes,
                            caffeineMg, halfLifeHours)
             ELSE acc

\* The last k for which t <= totalHours.
LastIteration(totalHours) ==
    LET k == (totalHours * MinutesPerHour) \div stepMinutes
    IN  IF LoopRuns(k, totalHours) THEN k ELSE k - 1

calculateCaffeineCurve(startTime, endTime, caffeineMg, halfLifeHours, totalHours) ==
    LoopRange(0, LastIteration(totalHours),
              [caffeine |-> 0, points |-> << >>],
              startTime, Max(endTime - startTime, 0), caffeineMg,
              halfLifeHours).points

\* Mutant of ScanCurve: a point at the target itself is not taken.
RECURSIVE ScanCurveBeforeTarget(_, _, _, _, _, _)
ScanCurveBeforeTarget(curve, lo, hi, acc, startDateTime, hoursSinceStart) ==
    IF lo > hi \/ acc.broken THEN acc
    ELSE IF lo = hi
    THEN IF curve[lo].time - startDateTime < hoursSinceStart
         THEN [caffeineAtBed |-> curve[lo].caffeine, broken |-> FALSE]
         ELSE [caffeineAtBed |-> acc.caffeineAtBed, broken |-> TRUE]
    ELSE LET mid == (lo + hi) \div 2
             left == ScanCurveBeforeTarget(curve, lo, mid, acc,
                                           startDateTime, hoursSinceStart)
         IN  ScanCurveBeforeTarget(curve, mid + 1, hi, left, startDateTime,
                                   hoursSinceStart)

\* The scan of calculateCaffeineRemaining over points lo..hi of the curve:
\* caffeineAtBed becomes the caffeine of each point not later than the
\* target, until the first later point breaks the loop.
RECURSIVE ScanCurve(_, _, _, _, _, _)
ScanCurve(curve, lo, hi, acc, startDateTime, hoursSinceStart) ==
    IF lo > hi \/ acc.broken THEN acc
    ELSE IF lo = hi
    THEN IF curve[lo].time - startDateTime <= hoursSinceStart
         THEN [caffeineAtBed |-> curve[lo].caffeine, broken |-> FALSE]
         ELSE [caffeineAtBed |-> acc.caffeineAtBed, broken |-> TRUE]
    ELSE LET mid == (lo + hi) \div 2
             left == ScanCurve(curve, lo, mid, acc, startDateTime,
                               hoursSinceStart)
         IN  ScanCurve(curve, mid + 1, hi, left, startDateTime,
                       hoursSinceStart)

\* Mutants of instantRemaining: the decay runs with the base half-life
\* instead of the personal one; an intake after bedtime is taken to be 24
\* hours earlier instead of not yet consumed.
instantRemainingBaseHalfLife(dose, hoursSince, halfLife) ==
    IF hoursSince < 0 THEN 0
    ELSE Max(0, DoseTimesPow05(dose, hoursSince, baseHalfLife))
instantRemainingWrapped(dose, hoursSince, halfLife) ==
    IF hoursSince < 0
    THEN Max(0, DoseTimesPow05(dose, hoursSince + MinutesPerDay, halfLife))
    ELSE Max(0, DoseTimesPow05(dose, hoursSince, halfLife))

\* The instantaneous branch of calculateCaffeineRemaining.
instantRemaining(dose, hoursSince, halfLife) ==
    IF hoursSince < 0 THEN 0
    ELSE Max(0, DoseTimesPow05(dose, hoursSince, halfLife))

\* Mutant of calculateCaffeineRemaining: an end before the start is left on
\* the day of the start.
calculateCaffeineRemainingNoRollover(dose, bedtimeString, halfLife, startTime, endTime) ==
    LET bed == BedDate(bedtimeString)
    IN  IF startTime = NoValue THEN 0
        ELSE
          LET endDateTime == IF endTime = NoValue THEN startTime ELSE endTime
              minutesToAbsorb == Max(1, endDateTime - startTime)
              hoursSince == bed - startTime
              curve == calculateCaffeineCurve(startTime, endDateTime,
                                              dose, halfLife, 48)
              caffeineAtBed ==
                ScanCurve(curve, 1, Len(curve),
                          [caffeineAtBed |-> 0, broken |-> FALSE],
                          startTime, hoursSince).caffeineAtBed
          IN  IF minutesToAbsorb <= 1
              THEN instantRemaining(dose, hoursSince, halfLife)
              ELSE IF hoursSince < 0 THEN 0
                   ELSE Max(0, caffeineAtBed)

calculateCaffeineRemaining(dose, bedtimeString, halfLife, startTime, endTime) ==
    LET bed == BedDate(bedtimeString)
    IN  IF startTime = NoValue THEN 0
        ELSE
          LET startDateTime == startTime
              endParsed == IF endTime = NoValue THEN startTime ELSE endTime
              endDateTime == IF endParsed < startDateTime
                             THEN endParsed + MinutesPerDay
                             ELSE endParsed
              minutesToAbsorb == Max(1, endDateTime - startDateTime)
              isInstant == minutesToAbsorb <= 1
              hoursSince == bed - startDateTime
              curve == calculateCaffeineCurve(startDateTime, endDateTime,
                                              dose, halfLife, 48)
              caffeineAtBed ==
                ScanCurve(curve, 1, Len(curve),
                          [caffeineAtBed |-> 0, broken |-> FALSE],
                          startDateTime, hoursSince).caffeineAtBed
          IN  IF isInstant
              THEN instantRemaining(dose, hoursSince, halfLife)
              ELSE IF hoursSince < 0 THEN 0
                   ELSE Max(0, caffeineAtBed)

\* ------------------------------------------------------------- Aggregator
\* drink.dose && drink.startTimeString: both fields are non-empty strings.
IsValidDrink(drink) ==
    drink.dose # NoValue /\ drink.startTimeString # NoValue

RECURSIVE FilterSeq(_, _)
FilterSeq(s, keep) ==
    IF s = << >> THEN << >>
    ELSE IF keep[1] THEN << Head(s) >> \o FilterSeq(Tail(s), Tail(keep))
         ELSE FilterSeq(Tail(s), Tail(keep))

ValidDrinks(drinkList) ==
    FilterSeq(drinkList, [i \in 1..Len(drinkList) |-> IsValidDrink(drinkList[i])])

\* drinks.reduce((total, drink) => ..., 0) from the i-th drink on.
RECURSIVE TotalFrom(_, _, _, _, _)
TotalFrom(drinkList, i, total, bedtimeString, halfLife) ==
    IF i > Len(drinkList) THEN total
    ELSE
      LET drink == drinkList[i]
      IN  IF ~IsValidDrink(drink)
          THEN TotalFrom(drinkList, i + 1, total, bedtimeString, halfLife)
          ELSE TotalFrom(drinkList, i + 1,
                 total + Max(0, calculateCaffeineRemaining(
                                  drink.dose, bedtimeString, halfLife,
                                  drink.startTimeString, drink.endTimeString)),
                 bedtimeString, halfLife)

\* Mutant of calculateTotalCaffeineAtBedtime: the reducer returns the
\* drink's amount instead of adding it to the total.
calculateTotalNotAccumulated(drinkList, bedtimeString, halfLife) ==
    LET valid == ValidDrinks(drinkList)
    IN  IF valid = << >> THEN 0
        ELSE LET drink == valid[Len(valid)]
             IN  Max(0, calculateCaffeineRemaining(
                          drink.dose, bedtimeString, halfLife,
                          drink.startTimeString, drink.endTimeString))

calculateTotalCaffeineAtBedtime(drinkList, bedtimeString, halfLife) ==
    TotalFrom(drinkList, 1, 0, bedtimeString, halfLife)

\* ----------------------------------------------------------- CutoffSolver
VARIABLES
    personalInfo,        \* [age, sex, weight], NoValue / "" when not entered
    units,               \* [weight |-> "metric" | "imperial"]
    bedtime,             \* clock string, NoValue when not entered
    drinks,              \* sequence of [name, dose, startTimeString, endTimeString]
    now,                 \* new Date(): the wall clock, minutes since 00:00 today
    adjustedHalfLife,    \* state set by the auto-calculate effect
    individualCutoffs,
    dailyIntake,
    warningMessage,
    result,
    chartData,
    selectedDate,        \* 'YYYY-MM-DD' as a day number
    timeZone,            \* minutes the browser's local time is ahead of UTC
    isActivelyEditing,
    isTransitioning,
    saveTimeout,         \* pending 800 ms timers of the auto-save effect,
                         \* each with the values its callback closed over
    fadeTimeout,         \* a 300 ms timer of the date-load effect is pending
    recentDrinks,
    localStorage         \* [daily, personalInfo, bedtime, recentDrinks]

\* The state of the page around the calculation: the date shown, the edit
\* and save flags, the timers and what is stored.
pageVars == << selectedDate, timeZone, isActivelyEditing, isTransitioning,
               saveTimeout, fadeTimeout, recentDrinks, localStorage >>

vars == << personalInfo, units, bedtime, drinks, now,
           adjustedHalfLife, individualCutoffs, dailyIntake, warningMessage,
           result, chartData, pageVars >>

\* A cutoffTime: one of the literal texts, or `${displayHours}:${displayMinutes} ${ampm}`.
Text(s) == [text |-> s, displayHours |-> 0, displayMinutes |-> 0, ampm |-> ""]

\* Mutant of ClockText: displayHours is hours % 12, without the `|| 12`.
ClockTextZeroHour(hours, minutes) ==
    [text |-> "h:mm",
     displayHours |-> hours % 12,
     displayMinutes |-> minutes,
     ampm |-> IF hours >= 12 THEN "PM" ELSE "AM"]

\* The formatting of cutoff.getHours() and cutoff.getMinutes().
ClockText(hours, minutes) ==
    [text |-> "h:mm",
     displayHours |-> IF hours % 12 = 0 THEN 12 ELSE hours % 12,
     displayMinutes |-> minutes,
     ampm |-> IF hours >= 12 THEN "PM" ELSE "AM"]

\* The least m in lo+1..hi with dose * 0.5^(m / halfLife) <= threshold,
\* given that hi is such an m and lo is not.
RECURSIVE LeastMinutes(_, _, _, _, _)
LeastMinutes(lo, hi, dose, threshold, halfLife) ==
    IF hi - lo <= 1 THEN hi
    ELSE LET mid == (lo + hi) \div 2
         IN  IF DoseTimesPow05(dose, mid, halfLife) <= threshold
             THEN LeastMinutes(lo, mid, dose, threshold, halfLife)
             ELSE LeastMinutes(mid, hi, dose, threshold, halfLife)

\* Mutant of hoursBeforeBedMinutes: Math.log2(dose / threshold) hours,
\* the half-life factor forgotten.
hoursBeforeBedNoHalfLife(halfLife, dose, threshold) ==
    LeastMinutes(0, 31 * MinutesPerHour, dose, threshold, MinutesPerHour)

\* halfLife * Math.log2(dose / threshold) for dose > threshold > 0, rounded
\* up to whole minutes: log2 is the inverse of 0.5^(-x), and the cutoff is
\* read with getHours()/getMinutes(), which drop the seconds.
hoursBeforeBedMinutes(halfLife, dose, threshold) ==
    LeastMinutes(0, 31 * halfLife, dose, threshold, halfLife)

\* Mutant of noCutoffNeeded: dose < threshold.
noCutoffNeededStrict(dose, threshold) == dose * Scale < threshold

\* dose <= threshold; threshold is an amount (fixed point), dose is in
\* whole milligrams.
noCutoffNeeded(dose, threshold) == dose * Scale <= threshold

\* Mutant of calculateLatestSafeIntakeTime: the bedtime is always taken on
\* the day of the calculation.
calculateLatestSafeIntakeTimeSameDay(bedtimeString, halfLife, dose, threshold) ==
    IF noCutoffNeeded(dose, threshold) THEN Text("Any time today")
    ELSE IF threshold <= 0 THEN Text("12:NaN AM")
    ELSE
      LET hoursBeforeBed == hoursBeforeBedMinutes(halfLife, dose, threshold)
          bed == bedtimeString
          cutoff == bed - hoursBeforeBed
          clamped == IF cutoff > bed THEN bed - 15 ELSE cutoff
          minuteOfDay == clamped % MinutesPerDay
      IN  IF cutoff < now THEN Text("Too late for today")
          ELSE ClockText(minuteOfDay \div MinutesPerHour,
                         minuteOfDay % MinutesPerHour)

calculateLatestSafeIntakeTime(bedtimeString, halfLife, dose, threshold) ==
    IF noCutoffNeeded(dose, threshold) THEN Text("Any time today")
    ELSE IF threshold <= 0
    THEN \* log2(dose / 0) is Infinity: cutoff is an invalid Date, both
         \* comparisons are false and the fields format as NaN.
         Text("12:NaN AM")
    ELSE
      LET hoursBeforeBed == hoursBeforeBedMinutes(halfLife, dose, threshold)
          bed == BedDate(bedtimeString)
          cutoff == bed - hoursBeforeBed
          clamped == IF cutoff > bed THEN bed - 15 ELSE cutoff
          minuteOfDay == clamped % MinutesPerDay
      IN  IF cutoff < now THEN Text("Too late for today")
          ELSE ClockText(minuteOfDay \div MinutesPerHour,
                         minuteOfDay % MinutesPerHour)

RemoveAt(s, index) == SubSeq(s, 1, index - 1) \o SubSeq(s, index + 1, Len(s))

\* Mutant of otherDrinks: the drink itself is not left out.
otherDrinksWithItself(validDrinks, index) == validDrinks

\* validDrinks.filter((_, otherIndex) => otherIndex !== index)
otherDrinks(validDrinks, index) == RemoveAt(validDrinks, index)

\* Mutant of cutoffEntry: the solver is called whatever the allowance.
cutoffEntryUnguarded(drink, maxAllowedCaffeineFromThisDrink, bedtimeString, halfLife) ==
    [name |-> drink.name, dose |-> drink.dose,
     cutoffTime |-> calculateLatestSafeIntakeTime(
                      bedtimeString, halfLife, drink.dose,
                      maxAllowedCaffeineFromThisDrink)]

\* The entry pushed for one drink, given its allowance.
cutoffEntry(drink, maxAllowedCaffeineFromThisDrink, bedtimeString, halfLife) ==
    IF maxAllowedCaffeineFromThisDrink > 0
    THEN [name |-> drink.name, dose |-> drink.dose,
          cutoffTime |-> calculateLatestSafeIntakeTime(
                           bedtimeString, halfLife, drink.dose,
                           maxAllowedCaffeineFromThisDrink)]
    ELSE [name |-> drink.name, dose |-> drink.dose,
          cutoffTime |-> Text("Already over limit")]

calculateIndividualCutoffTimes(drinkList, bedtimeString, halfLife) ==
    LET validDrinks == ValidDrinks(drinkList)
    IN  [index \in 1..Len(validDrinks) |->
          LET drink == validDrinks[index]
              otherDrinksCaffeine ==
                calculateTotalCaffeineAtBedtime(
                    otherDrinks(validDrinks, index), bedtimeString, halfLife)
              maxAllowedCaffeineFromThisDrink ==
                Max(0, safeSleepThreshold * Scale - otherDrinksCaffeine)
          IN  cutoffEntry(drink, maxAllowedCaffeineFromThisDrink,
                          bedtimeString, halfLife)]

\* ------------------------------------------------------- IntakeClassifier
\* parseFloat(drink.dose) || 0
DoseOf(drink) == IF drink.dose = NoValue THEN 0 ELSE drink.dose

RECURSIVE DailyIntakeFrom(_, _, _)
DailyIntakeFrom(drinkList, i, total) ==
    IF i > Len(drinkList) THEN total
    ELSE DailyIntakeFrom(drinkList, i + 1, total + DoseOf(drinkList[i]))

calculateDailyIntake(drinkList) == DailyIntakeFrom(drinkList, 1, 0)

\* A warning: null, or the type and the numbers shown in its message.
Warning(type, intake, suggested, dose) ==
    [type |-> type, dailyIntake |-> intake, suggestedDose |-> suggested,
     dose |-> dose]
NoWarning == Warning("null", NoValue, NoValue, NoValue)

\* Mutant of getWarningMessage: 600 mg itself is not yet a caution.
getWarningMessageAbove600(intake) ==
    IF intake <= 600 THEN NoWarning
    ELSE IF intake < 1000 THEN Warning("caution", intake, NoValue, NoValue)
    ELSE Warning("danger", NoValue, NoValue, NoValue)

getWarningMessage(intake) ==
    IF intake < 600 THEN NoWarning
    ELSE IF intake >= 600 /\ intake < 1000
    THEN Warning("caution", intake, NoValue, NoValue)
    ELSE IF intake >= 1000 THEN Warning("danger", NoValue, NoValue, NoValue)
    ELSE NoWarning

\* drinks.find(...): the index of the first drink the test accepts, 0 when
\* there is none.
RECURSIVE FindFrom(_, _, _)
FindFrom(drinkList, i, limit) ==
    IF i > Len(drinkList) THEN 0
    ELSE IF DoseOf(drinkList[i]) > limit THEN i
    ELSE FindFrom(drinkList, i + 1, limit)

\* Math.round(x / 100) for a whole x >= 0 (halves round up).
RoundHundredth(x) == (x + 50) \div 100

\* Mutant of checkForTypo: a dose of 5000 mg is flagged too.
checkForTypoFrom5000(drinkList) ==
    LET found == FindFrom(drinkList, 1, 4999)
    IN  IF found # 0
        THEN Warning("typo", NoValue,
                     RoundHundredth(drinkList[found].dose),
                     drinkList[found].dose)
        ELSE NoWarning

checkForTypo(drinkList) ==
    LET found == FindFrom(drinkList, 1, 5000)
    IN  IF found # 0
        THEN Warning("typo", NoValue,
                     RoundHundredth(drinkList[found].dose),
                     drinkList[found].dose)
        ELSE NoWarning

\* The warning the effect stores: the typo one first.
chosenWarning(typoWarning, dailyWarning) ==
    IF typoWarning # NoWarning THEN typoWarning
    ELSE IF dailyWarning # NoWarning THEN dailyWarning
    ELSE NoWarning

\* ------------------------------------------------------------------ chart
\* parseInt(time.split(':')[0])
HourOf(timeString) == timeString \div MinutesPerHour

\* Mutant of chartHours: the end times of the drinks are not looked at.
chartHoursBedtimeOnly ==
    IF bedtime = NoValue THEN 24
    ELSE IF HourOf(bedtime) < 12 THEN 48
    ELSE 24

\* The memo chartHours over the drinks and the bedtime entered.
chartHours ==
    IF bedtime = NoValue THEN 24
    ELSE IF HourOf(bedtime) < 12 THEN 48
    ELSE IF \E i \in 1..Len(drinks) :
               /\ drinks[i].endTimeString # NoValue
               /\ HourOf(drinks[i].endTimeString) < 12
         THEN 48
         ELSE 24

\* Math.round(startOffset + relHour) for the k-th point of a curve that
\* starts at the given minute of the day.
globalIndex(startMinute, k) ==
    (startMinute + k * stepMinutes + 30) \div MinutesPerHour

SetMax(S) == CHOOSE x \in S : \A y \in S : y <= x

\* data[globalIndex] after the loop over the curve (data[0] is the first
\* element of the sequence).
ChartSeries(curve, startMinute, hours) ==
    [g \in 1..(hours + 1) |->
       LET guess == ((g - 1) * MinutesPerHour - startMinute) \div stepMinutes
           near == {k \in (guess - 9)..(guess + 9) :
                       /\ k >= 0 /\ k < Len(curve)
                       /\ globalIndex(startMinute, k) = g - 1}
       IN  SetMax({0} \cup {curve[k + 1].caffeine : k \in near})]

\* Mutant of chartDataset: the end time is kept on the day of the start.
chartDatasetSameDay(drink, halfLife, hours) ==
    LET start == drink.startTimeString
        end == IF drink.endTimeString # NoValue THEN drink.endTimeString
               ELSE start
        curve == calculateCaffeineCurve(start, end, drink.dose, halfLife,
                                        hours)
    IN  [name |-> drink.name, dose |-> drink.dose,
         data |-> ChartSeries(curve, start, hours)]

\* The dataset pushed for one valid drink.
chartDataset(drink, halfLife, hours) ==
    LET start == drink.startTimeString
        endParsed == IF drink.endTimeString # NoValue
                     THEN drink.endTimeString ELSE start
        end == IF endParsed < start THEN endParsed + MinutesPerDay
               ELSE endParsed
        curve == calculateCaffeineCurve(start, end, drink.dose, halfLife,
                                        hours)
    IN  [name |-> drink.name, dose |-> drink.dose,
         data |-> ChartSeries(curve, start, hours)]

\* useState(null): no chart yet
NoChart == [labels |-> << >>, datasets |-> << >>]

generateChartData(drinkList, bedtimeString, halfLife, hours) ==
    LET valid == ValidDrinks(drinkList)
    IN  [labels |-> [i \in 1..(hours + 1) |->
                       [hour |-> (i - 1) % 24, day |-> (i - 1) \div 24]],
         datasets |-> [i \in 1..Len(valid) |->
                         chartDataset(valid[i], halfLife, hours)]]

\* ----------------------------------------------------------------- inputs
Clock(hours, minutes) == hours * MinutesPerHour + minutes

AgeSet == {29, 30, 50, 51}
SexSet == {"male", "female"}
\* tenths of a kilogram or of a pound, on both sides of 60 kg and 90 kg
WeightSet == {599, 600, 900, 901, 1322, 1323, 1984, 1985}
UnitSet == {"metric", "imperial"}

Profile(age, sex, weight) == [age |-> age, sex |-> sex, weight |-> weight]
AllProfiles == {Profile(a, s, w) : a \in AgeSet, s \in SexSet, w \in WeightSet}
\* profiles with a field left empty: the effect does not calculate
EmptyProfiles == {Profile(NoValue, "male", 700), Profile(35, "", 700),
                  Profile(35, "female", NoValue)}
Drink(name, dose, start, end) ==
    [name |-> name, dose |-> dose, startTimeString |-> start,
     endTimeString |-> end]

DrinkSet ==
    { Drink("No dose", NoValue, Clock(8, 0), Clock(0, 20)),
      Drink("No time", 120, NoValue, NoValue),
      Drink("Tea", 30, Clock(8, 0), NoValue),
      Drink("Coffee", 120, Clock(8, 0), Clock(8, 0)),
      Drink("Energy", 200, Clock(22, 0), NoValue),
      Drink("Nightcap", 60, Clock(23, 30), NoValue),
      Drink("Latte", 120, Clock(14, 0), Clock(14, 45)),
      Drink("Mate", 60, Clock(23, 30), Clock(0, 20)) }

RECURSIVE SeqsUpTo(_, _)
SeqsUpTo(S, n) ==
    IF n = 0 THEN { << >> }
    ELSE LET shorter == SeqsUpTo(S, n - 1)
         IN  shorter \cup {Append(s, x) : s \in shorter, x \in S}

\* drinks entered alone: a window of one minute, a start that is not on a
\* whole hour
SingleDrinkSet ==
    DrinkSet \cup { Drink("Espresso", 60, Clock(8, 0), Clock(8, 1)),
                    Drink("Matcha", 30, Clock(8, 10), NoValue) }

BedtimeSet == {Clock(1, 0), Clock(11, 59), Clock(12, 0), Clock(23, 0)}
NowSet == {Clock(6, 0), Clock(22, 30)}

\* ------------------------------------------------------------------ state
\* Day numbers 0..MaxDay: the date of the first run and the day before it.
MaxDay == 10
Today == MaxDay \div 2
Yesterday == Today - 1

\* Nothing stored: getItem returns null for every key.
EmptyStorage ==
    [daily |-> [d \in {Yesterday, Today} |-> << >>],
     personalInfo |-> NoValue, bedtime |-> NoValue, recentDrinks |-> << >>]

\* The page state the calculation runs in when nothing is stored, edited
\* or about to be saved (the useState initial values).
FreshPage ==
    /\ selectedDate = Today
    /\ timeZone = 0
    /\ isActivelyEditing = FALSE
    /\ isTransitioning = FALSE
    /\ saveTimeout = {}
    /\ fadeTimeout = FALSE
    /\ recentDrinks = << >>
    /\ localStorage = EmptyStorage

\* The inputs are what the mount effect loaded from storage; nothing has
\* been calculated yet (useState(null), useState([])).  They are drawn
\* from three families: every profile with one drink, every bedtime and
\* wall-clock time with at most one drink, and every drink list with an
\* evening and an after-midnight bedtime.
Init ==
    /\ \/ /\ personalInfo \in AllProfiles \cup EmptyProfiles
          /\ units \in [weight : UnitSet]
          /\ bedtime = Clock(23, 0)
          /\ drinks = << Drink("Coffee", 120, Clock(8, 0), Clock(8, 0)) >>
          /\ now = Clock(6, 0)
       \/ /\ personalInfo = Profile(29, "male", 700)
          /\ units = [weight |-> "metric"]
          /\ bedtime \in BedtimeSet \cup {NoValue}
          /\ drinks \in SeqsUpTo(SingleDrinkSet, 1)
          /\ now \in NowSet
       \/ /\ personalInfo = Profile(29, "male", 700)
          /\ units = [weight |-> "metric"]
          /\ bedtime \in {Clock(1, 0), Clock(23, 0)}
          /\ drinks \in SeqsUpTo(DrinkSet, MaxDrinks)
          /\ now = Clock(6, 0)
    /\ adjustedHalfLife = NoValue
    /\ individualCutoffs = << >>
    /\ dailyIntake = 0
    /\ warningMessage = NoWarning
    /\ result = NoValue
    /\ chartData = NoChart
    /\ FreshPage

\* The auto-calculate effect.
AutoCalculate ==
    /\ ~(bedtime = NoValue \/ personalInfo.age = NoValue
         \/ personalInfo.sex = "" \/ personalInfo.weight = NoValue)
    /\ LET validDrinks == ValidDrinks(drinks)
           halfLife == calculateAdjustedHalfLife(personalInfo, units)
       IN  /\ Len(validDrinks) # 0
           /\ adjustedHalfLife' = halfLife
           /\ individualCutoffs' =
                calculateIndividualCutoffTimes(validDrinks, bedtime, halfLife)
           /\ dailyIntake' = calculateDailyIntake(validDrinks)
           /\ warningMessage' =
                chosenWarning(checkForTypo(validDrinks),
                              getWarningMessage(
                                  calculateDailyIntake(validDrinks)))
           /\ result' =
                calculateTotalCaffeineAtBedtime(validDrinks, bedtime, halfLife)
           /\ chartData' =
                generateChartData(validDrinks, bedtime, halfLife, chartHours)
    /\ UNCHANGED << personalInfo, units, bedtime, drinks, now, pageVars >>

Next == AutoCalculate

Spec == Init /\ [][Next]_vars

\* -------------------------------------------------------------- the clock
\* The wall clock read by new Date() moves on between two runs of the
\* effect (the effect runs again whenever the drink list is set again, as
\* by entering and leaving edit mode, with the same doses and times).
Tick ==
    /\ \E later \in NowSet : later > now /\ now' = later
    /\ UNCHANGED << personalInfo, units, bedtime, drinks, adjustedHalfLife,
                    individualCutoffs, dailyIntake, warningMessage, result,
                    chartData, pageVars >>

ClockInit ==
    /\ personalInfo = Profile(29, "male", 700)
    /\ units = [weight |-> "metric"]
    /\ bedtime \in BedtimeSet \cup {NoValue}
    /\ drinks \in SeqsUpTo(SingleDrinkSet, 1)
    /\ now = Clock(6, 0)
    /\ adjustedHalfLife = NoValue
    /\ individualCutoffs = << >>
    /\ dailyIntake = 0
    /\ warningMessage = NoWarning
    /\ result = NoValue
    /\ chartData = NoChart
    /\ FreshPage

ClockNext == AutoCalculate \/ Tick

ClockSpec == ClockInit /\ [][ClockNext]_vars

\* --------------------------------------------------------- the classifier
\* The daily warning and the typo check are about doses far above the
\* amounts the fixed-point arithmetic can hold (a typo is a dose above
\* 5000 mg), so they are applied to lists of such doses on their own.
LargeDoseSet == {300, 599, 600, 999, 1000, 5000, 5001, 5050, 6000, 7049}
LargeDrinkSet ==
    {Drink("Drink", dose, Clock(8, 0), NoValue) : dose \in LargeDoseSet}
    \cup { Drink("No time", 6000, NoValue, NoValue),
           Drink("No dose", NoValue, Clock(8, 0), NoValue) }

ClassifierInit ==
    /\ personalInfo = Profile(29, "male", 700)
    /\ units = [weight |-> "metric"]
    /\ bedtime = Clock(23, 0)
    /\ drinks \in SeqsUpTo(LargeDrinkSet, MaxDrinks)
    /\ now = Clock(6, 0)
    /\ adjustedHalfLife = NoValue
    /\ individualCutoffs = << >>
    /\ dailyIntake = 0
    /\ warningMessage = NoWarning
    /\ result = NoValue
    /\ chartData = NoChart
    /\ FreshPage

\* The steps of the auto-calculate effect that classify the intake: the
\* daily intake and the warning message.
ClassifyIntake ==
    /\ ~(bedtime = NoValue \/ personalInfo.age = NoValue
         \/ personalInfo.sex = "" \/ personalInfo.weight = NoValue)
    /\ LET validDrinks == ValidDrinks(drinks)
       IN  /\ Len(validDrinks) # 0
           /\ dailyIntake' = calculateDailyIntake(validDrinks)
           /\ warningMessage' =
                chosenWarning(checkForTypo(validDrinks),
                              getWarningMessage(
                                  calculateDailyIntake(validDrinks)))
    /\ UNCHANGED << personalInfo, units, bedtime, drinks, now,
                    adjustedHalfLife, individualCutoffs, result, chartData,
                    pageVars >>

ClassifierNext == ClassifyIntake

ClassifierSpec == ClassifierInit /\ [][ClassifierNext]_vars

\* ================================================================ the page
\* The list of drinks shown, its edit mode, the stored daily data, the
\* debounced auto-save and the change of the selected date.  A drink of the
\* list is [id, name, dose, startTimeString, endTimeString, isEditing,
\* isLogged, loggedIndex]; the id `logged-${index}` is the number index and
\* an id of generateStableId is a number from FirstStableId on.  A stored
\* entry is [name, dose, startTimeString, endTimeString]: JSON.stringify
\* and JSON.parse keep these fields, parseFloat and toString keep a dose
\* that passed the `drink.dose &&` filter.  A handler is one step together
\* with the effects React runs for the state it set and with the renders
\* those effects cause: they all happen before a timer of 300 ms or more
\* can expire.  saveStatus, lastSaveTime, todayData and historyData are only
\* displayed and are left out.

Entry(id, name, dose, start, end, editing, logged, index) == [id |-> id, name |-> name, dose |-> dose, startTimeString |-> start, endTimeString |-> end, isEditing |-> editing, isLogged |-> logged, loggedIndex |-> index]

Stored(name, dose, start, end) == [name |-> name, dose |-> dose, startTimeString |-> start, endTimeString |-> end]

FirstStableId == 100
generateStableId(list) ==
    LET used == {list[i].id : i \in 1..Len(list)}
    IN  CHOOSE n \in FirstStableId..(FirstStableId + Len(list)) :
          /\ n \notin used
          /\ \A m \in FirstStableId..(n - 1) : m \in used

\* the drink addDrink and the date-load effect put in the list
EmptyEntry(id) == Entry(id, "", NoValue, NoValue, NoValue, TRUE, FALSE, NoValue)

SetField(list, id, field, value, needsEditing) ==
    [i \in 1..Len(list) |->
       IF list[i].id = id /\ (needsEditing => list[i].isEditing)
       THEN [list[i] EXCEPT ![field] = value]
       ELSE list[i]]

\* ---- sortDrinksByTime: a stable sort, drinks without a start time last
SortKey(drink) ==
    IF drink.startTimeString = NoValue THEN 2 * MinutesPerDay
    ELSE drink.startTimeString

RECURSIVE InsertByTime(_, _)
InsertByTime(sorted, drink) ==
    IF sorted = << >> THEN << drink >>
    ELSE IF SortKey(Head(sorted)) <= SortKey(drink)
         THEN << Head(sorted) >> \o InsertByTime(Tail(sorted), drink)
         ELSE << drink >> \o sorted

RECURSIVE SortFrom(_, _, _)
SortFrom(list, i, sorted) ==
    IF i > Len(list) THEN sorted
    ELSE SortFrom(list, i + 1, InsertByTime(sorted, list[i]))

sortDrinksByTime(drinksList) == SortFrom(drinksList, 1, << >>)

\* ---- storage.js
\* getItem of a key that was never set is null: []
loadDailyData(store, date) ==
    IF date \in DOMAIN store.daily THEN store.daily[date] ELSE << >>

saveDailyData(store, date, list) ==
    LET validDrinks == ValidDrinks(list)
        dailyData ==
          [i \in 1..Len(validDrinks) |->
             Stored(IF validDrinks[i].name = "" THEN "Unnamed drink"
                    ELSE validDrinks[i].name,
                    validDrinks[i].dose, validDrinks[i].startTimeString,
                    validDrinks[i].endTimeString)]
    IN  [store EXCEPT !.daily[date] = dailyData]

\* drinkIndex counts from 0
updateTodayDrink(store, date, drinkIndex, updatedDrink) ==
    LET dailyData == loadDailyData(store, date)
    IN  IF drinkIndex >= 0 /\ drinkIndex < Len(dailyData)
        THEN [store EXCEPT !.daily[date][drinkIndex + 1] = updatedDrink]
        ELSE store

deleteTodayDrink(store, date, drinkIndex) ==
    LET dailyData == loadDailyData(store, date)
    IN  IF drinkIndex >= 0 /\ drinkIndex < Len(dailyData)
        THEN [store EXCEPT !.daily[date] = RemoveAt(dailyData, drinkIndex + 1)]
        ELSE store

addQuickDrink(store, date, drink) ==
    [store EXCEPT !.daily[date] =
       Append(loadDailyData(store, date),
              Stored(IF drink.name = "" THEN "Quick drink" ELSE drink.name,
                     drink.dose, drink.startTimeString, drink.endTimeString))]

\* ---- recent drinks: [name, caffeine, isCustom]
Recent(name, caffeine, isCustom) == [name |-> name, caffeine |-> caffeine, isCustom |-> isCustom]

\* JSON.stringify of the list, as the text of one entry after the other,
\* and JSON.parse of that text
StringifyRecent(list) == [i \in 1..Len(list) |-> << list[i].name, list[i].caffeine, list[i].isCustom >>]
ParseRecent(text) == [i \in 1..Len(text) |-> Recent(text[i][1], text[i][2], text[i][3])]

MaxRecent == 5

\* Mutant of updateRecentDrinks: the list is not cut to 5 entries.
updateRecentDrinksUncut(selectedDrink, currentRecent) == << selectedDrink >> \o FilterSeq(currentRecent, [i \in 1..Len(currentRecent) |-> currentRecent[i].name # selectedDrink.name])

\* the list updateRecentDrinks returns (and hands to saveRecentDrinks)
updateRecentDrinks(selectedDrink, currentRecent) ==
    LET filtered ==
          FilterSeq(currentRecent,
                    [i \in 1..Len(currentRecent) |->
                       currentRecent[i].name # selectedDrink.name])
        all == << selectedDrink >> \o filtered
    IN  SubSeq(all, 1, Min(MaxRecent, Len(all)))

saveRecentDrinks(store, list) == [store EXCEPT !.recentDrinks = StringifyRecent(list)]

loadRecentDrinks(store) == ParseRecent(store.recentDrinks)

\* ---- the effects
\* The drinks the date-load effect puts in the list.
loadedDrinks(store, date) ==
    LET selectedDateData == loadDailyData(store, date)
        loggedDrinks ==
          [i \in 1..Len(selectedDateData) |->
             Entry(i - 1, selectedDateData[i].name, selectedDateData[i].dose,
                   selectedDateData[i].startTimeString,
                   selectedDateData[i].endTimeString, FALSE, TRUE, i - 1)]
    IN  IF Len(loggedDrinks) = 0 THEN << EmptyEntry(FirstStableId) >>
        ELSE sortDrinksByTime(loggedDrinks)

NoDataToSave(info, list) ==
    /\ info.age = NoValue /\ info.sex = "" /\ info.weight = NoValue
    /\ \A i \in 1..Len(list) : list[i].name = "" /\ list[i].dose = NoValue

\* what the 800 ms callback closed over
SaveClosure(list, date, info, un, bed) == [drinks |-> list, selectedDate |-> date, personalInfo |-> info, units |-> un, bedtime |-> bed]

\* Mutant of autoSaveEffect: the timer of the previous run is not cleared.
autoSaveEffectNoCleanup(pending, list, date, info, un, bed, transitioning, editing) == IF transitioning \/ editing \/ NoDataToSave(info, list) THEN pending ELSE pending \cup {SaveClosure(list, date, info, un, bed)}

\* The auto-save effect, run because one of its dependencies changed: the
\* cleanup of its previous run clears the pending timer, then a new one is
\* set unless the effect returns early.  The result is the pending timers.
autoSaveEffect(pending, list, date, info, un, bed, transitioning, editing) ==
    IF transitioning \/ editing \/ NoDataToSave(info, list) THEN {}
    ELSE {SaveClosure(list, date, info, un, bed)}

CanCalculate ==
    /\ ~(bedtime = NoValue \/ personalInfo.age = NoValue
         \/ personalInfo.sex = "" \/ personalInfo.weight = NoValue)
    /\ Len(ValidDrinks(drinks)) # 0

\* The auto-calculate effect on the list and the bedtime a handler has set
\* (the memo chartHours is the one of the same render).
autoCalculateEffect(list, bed) ==
    LET validDrinks == ValidDrinks(list)
        halfLife == calculateAdjustedHalfLife(personalInfo, units)
        hours == chartHours'
    IN  IF \/ bed = NoValue \/ personalInfo.age = NoValue
           \/ personalInfo.sex = "" \/ personalInfo.weight = NoValue
           \/ Len(validDrinks) = 0
        THEN UNCHANGED << adjustedHalfLife, individualCutoffs, dailyIntake,
                          warningMessage, result, chartData >>
        ELSE /\ adjustedHalfLife' = halfLife
             /\ individualCutoffs' =
                  calculateIndividualCutoffTimes(validDrinks, bed, halfLife)
             /\ dailyIntake' = calculateDailyIntake(validDrinks)
             /\ warningMessage' =
                  chosenWarning(checkForTypo(validDrinks),
                                getWarningMessage(
                                    calculateDailyIntake(validDrinks)))
             /\ result' =
                  calculateTotalCaffeineAtBedtime(validDrinks, bed, halfLife)
             /\ chartData' =
                  generateChartData(validDrinks, bed, halfLife, hours)

\* The renders after a handler that set the list, the edit flag or the
\* bedtime and left the selected date alone.
Rendered(list, editing, bed) ==
    /\ drinks' = list
    /\ isActivelyEditing' = editing
    /\ bedtime' = bed
    /\ saveTimeout' = autoSaveEffect(saveTimeout, list, selectedDate,
                                     personalInfo, units, bed,
                                     isTransitioning, editing)
    /\ UNCHANGED << personalInfo, units, now, selectedDate, timeZone,
                    isTransitioning, fadeTimeout >>

\* ---- the handlers
HasDrink(id) == \E i \in 1..Len(drinks) : drinks[i].id = id
DrinkWithId(id) == drinks[CHOOSE i \in 1..Len(drinks) : drinks[i].id = id]
DrinkIds == {drinks[i].id : i \in 1..Len(drinks)}

addDrink ==
    /\ Len(drinks) < MaxDrinks
    /\ Rendered(sortDrinksByTime(
                   Append(drinks, EmptyEntry(generateStableId(drinks)))),
                TRUE, bedtime)
    /\ UNCHANGED << recentDrinks, localStorage >>

\* the dose and start-time fields of a drink in edit mode
DoseInputs == {200}
updateDrink(id, field, value) ==
    /\ HasDrink(id) /\ DrinkWithId(id).isEditing
    /\ DrinkWithId(id)[field] # value
    /\ Rendered(SetField(drinks, id, field, value, TRUE),
                isActivelyEditing, bedtime)
    /\ UNCHANGED << recentDrinks, localStorage >>

startEditing(id) ==
    /\ HasDrink(id) /\ ~DrinkWithId(id).isEditing
    /\ Rendered(SetField(drinks, id, "isEditing", TRUE, FALSE), TRUE, bedtime)
    /\ UNCHANGED << recentDrinks, localStorage >>

cancelEditing(id) ==
    /\ HasDrink(id) /\ DrinkWithId(id).isEditing
    /\ Rendered(SetField(drinks, id, "isEditing", FALSE, FALSE), FALSE,
                bedtime)
    /\ UNCHANGED << recentDrinks, localStorage >>

\* /data/drinks.json, six drinks of it
drinksDatabase == {Recent("Tea", 30, FALSE), Recent("Coffee", 120, FALSE), Recent("Cola", 40, FALSE), Recent("Espresso", 60, FALSE), Recent("Mate", 80, FALSE), Recent("Cocoa", 10, FALSE)}

handleDrinkSelection(id, selectedDrinkName) ==
    /\ HasDrink(id) /\ DrinkWithId(id).isEditing
    /\ \E db \in drinksDatabase : db.name = selectedDrinkName
    /\ LET selectedDrink ==
             CHOOSE db \in drinksDatabase : db.name = selectedDrinkName
           updatedRecent == updateRecentDrinks(selectedDrink, recentDrinks)
           d == DrinkWithId(id)
           chosen == [d EXCEPT !.name = selectedDrink.name,
                               !.dose = selectedDrink.caffeine,
                               !.startTimeString =
                                  IF d.startTimeString = NoValue THEN now
                                  ELSE d.startTimeString,
                               !.isEditing = TRUE]
       IN  /\ recentDrinks' = updatedRecent
           /\ localStorage' = saveRecentDrinks(localStorage, updatedRecent)
           /\ Rendered([i \in 1..Len(drinks) |->
                          IF drinks[i].id = id THEN chosen ELSE drinks[i]],
                       isActivelyEditing, bedtime)

\* the number of entries stored, over all dates
RECURSIVE SumLen(_, _)
SumLen(daily, dates) ==
    IF dates = {} THEN 0
    ELSE LET d == CHOOSE x \in dates : TRUE
         IN  Len(daily[d]) + SumLen(daily, dates \ {d})
StoredEntries(store) == SumLen(store.daily, DOMAIN store.daily)

IsComplete(drink) ==
    /\ drink.name # "" /\ drink.dose # NoValue /\ drink.dose > 0
    /\ drink.startTimeString # NoValue

handleDrinkDone(id) ==
    /\ HasDrink(id) /\ DrinkWithId(id).isEditing
    /\ IsComplete(DrinkWithId(id))
    /\ DrinkWithId(id).isLogged \/ StoredEntries(localStorage) < MaxDrinks
    /\ LET drink == DrinkWithId(id)
           isCustom ==
             /\ \A db \in drinksDatabase : db.name # drink.name
             /\ \A i \in 1..Len(recentDrinks) :
                  recentDrinks[i].name # drink.name
           updatedRecent ==
             IF isCustom
             THEN updateRecentDrinks(Recent(drink.name, drink.dose, TRUE),
                                     recentDrinks)
             ELSE recentDrinks
           afterRecent ==
             IF isCustom THEN saveRecentDrinks(localStorage, updatedRecent)
             ELSE localStorage
           logged == Stored(drink.name, drink.dose, drink.startTimeString,
                            drink.endTimeString)
           updatedData ==
             IF ~drink.isLogged
             THEN addQuickDrink(afterRecent, selectedDate, logged)
             ELSE updateTodayDrink(afterRecent, selectedDate,
                                   drink.loggedIndex, logged)
           done ==
             IF ~drink.isLogged
             THEN [drink EXCEPT !.isLogged = TRUE,
                     !.loggedIndex =
                        Len(loadDailyData(updatedData, selectedDate)) - 1,
                     !.isEditing = FALSE]
             ELSE [drink EXCEPT !.isEditing = FALSE]
       IN  /\ recentDrinks' = updatedRecent
           /\ localStorage' = updatedData
           /\ Rendered(sortDrinksByTime(
                          [i \in 1..Len(drinks) |->
                             IF drinks[i].id = id THEN done ELSE drinks[i]]),
                       FALSE, bedtime)

\* window.confirm answered with OK
handleDeleteDrink(id) ==
    /\ HasDrink(id)
    /\ LET drink == DrinkWithId(id)
       IN  /\ localStorage' =
                IF drink.isLogged
                THEN deleteTodayDrink(localStorage, selectedDate,
                                      drink.loggedIndex)
                ELSE localStorage
           /\ Rendered(FilterSeq(drinks, [i \in 1..Len(drinks) |->
                                            drinks[i].id # id]),
                       IF drink.isEditing THEN FALSE ELSE isActivelyEditing,
                       bedtime)
    /\ UNCHANGED recentDrinks

\* the bedtime field
BedtimeInputs == {NoValue, Clock(23, 0)}
setBedtime(value) ==
    /\ value # bedtime
    /\ Rendered(drinks, isActivelyEditing, value)
    /\ UNCHANGED << recentDrinks, localStorage >>

\* setSelectedDate(date) with another date: the date-load effect puts the
\* stored drinks of that date in the list and starts the 300 ms fade; the
\* auto-save effect runs with the list of the date before, and again, for
\* the render the date-load effect causes, with the list loaded.  The
\* auto-calculate effect of the first render repeats the calculation that
\* gave the values stored.
setSelectedDate(date) ==
    /\ date # selectedDate
    /\ selectedDate' = date
    /\ drinks' = loadedDrinks(localStorage, date)
    /\ isTransitioning' = TRUE
    /\ fadeTimeout' = TRUE
    /\ saveTimeout' =
         autoSaveEffect(
             autoSaveEffect(saveTimeout, drinks, date, personalInfo, units,
                            bedtime, isTransitioning, isActivelyEditing),
             loadedDrinks(localStorage, date), date, personalInfo, units,
             bedtime, TRUE, isActivelyEditing)
    /\ UNCHANGED << personalInfo, units, bedtime, now, timeZone,
                    isActivelyEditing, recentDrinks, localStorage >>

\* new Date(selectedDate + 'T00:00:00'): local midnight of the day, in
\* minutes since the epoch (UTC)
LocalMidnight(day, zone) == day * MinutesPerDay - zone
\* toISOString().split('T')[0]: the UTC day of an instant
IsoDay(instant) == instant \div MinutesPerDay

\* the date changeDate(days) selects
changedDate(date, days, zone) ==
    LET currentDate == LocalMidnight(date, zone)
        moved == currentDate + days * MinutesPerDay
    IN  IsoDay(moved)

changeDate(days) ==
    setSelectedDate(changedDate(selectedDate, days, timeZone))

\* ---- the timers
\* The 800 ms callback of the auto-save effect.
SaveTimeoutFires ==
    \E t \in saveTimeout :
      /\ saveTimeout' = saveTimeout \ {t}
      /\ LET info == t.personalInfo
             withInfo ==
               IF info.age # NoValue \/ info.sex # "" \/ info.weight # NoValue
               THEN [localStorage EXCEPT
                       !.personalInfo = [personalInfo |-> info,
                                         units |-> t.units]]
               ELSE localStorage
             withBedtime ==
               IF t.bedtime # NoValue
               THEN [withInfo EXCEPT !.bedtime = t.bedtime]
               ELSE withInfo
         IN  localStorage' =
               saveDailyData(withBedtime, t.selectedDate,
                             ValidDrinks(t.drinks))
      /\ UNCHANGED << personalInfo, units, bedtime, drinks, now,
                      selectedDate, timeZone, isActivelyEditing,
                      isTransitioning, fadeTimeout, recentDrinks >>

\* A 300 ms callback of the date-load effect: setIsTransitioning(false),
\* for which the auto-save effect runs again.  Each change of the date
\* within 300 ms starts one more of these timers.
FadeTimeoutFires ==
    /\ fadeTimeout
    /\ fadeTimeout' \in BOOLEAN
    /\ isTransitioning' = FALSE
    /\ saveTimeout' =
         IF isTransitioning
         THEN autoSaveEffect(saveTimeout, drinks, selectedDate, personalInfo,
                             units, bedtime, FALSE, isActivelyEditing)
         ELSE saveTimeout
    /\ UNCHANGED << personalInfo, units, bedtime, drinks, now,
                    selectedDate, timeZone, isActivelyEditing, recentDrinks,
                    localStorage >>

\* ---- the page after it mounted
\* what the user does on the page: the dates gone to, the drink chosen for
\* a new entry of the list
PageDates == {Yesterday, Today}
SelectInputs == {"Tea"}

StoredToday ==
    { << Stored("Cola", 40, Clock(10, 0), NoValue),
         Stored("Coffee", 120, Clock(8, 0), NoValue) >> }

\* The page after the mount effect and the first run of the date-load
\* effect, without what the auto-calculate effect has set.
Mounted ==
    /\ personalInfo = Profile(29, "male", 700)
    /\ units = [weight |-> "metric"]
    /\ bedtime = Clock(23, 0)
    /\ now = Clock(6, 0)
    /\ selectedDate = Today
    /\ timeZone = 0
    /\ \E data \in StoredToday :
         localStorage =
           [daily |-> [d \in PageDates |-> IF d = Today THEN data ELSE << >>],
            personalInfo |-> [personalInfo |-> personalInfo, units |-> units],
            bedtime |-> bedtime, recentDrinks |-> << >>]
    /\ recentDrinks = loadRecentDrinks(localStorage)
    /\ drinks = loadedDrinks(localStorage, selectedDate)
    /\ isActivelyEditing = FALSE
    /\ isTransitioning = TRUE
    /\ fadeTimeout = TRUE
    /\ saveTimeout = {}

\* what the auto-calculate effect sets
calculated == << adjustedHalfLife, individualCutoffs, dailyIntake, warningMessage, result, chartData >>

NothingCalculated ==
    /\ adjustedHalfLife = NoValue
    /\ individualCutoffs = << >>
    /\ dailyIntake = 0
    /\ warningMessage = NoWarning
    /\ result = NoValue
    /\ chartData = NoChart

\* The handlers and the timers of the page.
PageStep ==
    \/ addDrink
    \/ \E id \in DrinkIds : \E value \in DoseInputs : updateDrink(id, "dose", value)
    \/ \E id \in DrinkIds : startEditing(id)
    \/ \E id \in DrinkIds : cancelEditing(id)
    \/ \E id \in DrinkIds : \E name \in SelectInputs : DrinkWithId(id).name = "" /\ handleDrinkSelection(id, name)
    \/ \E id \in DrinkIds : handleDrinkDone(id)
    \/ \E id \in DrinkIds : handleDeleteDrink(id)
    \/ \E value \in BedtimeInputs : setBedtime(value)
    \/ \E date \in PageDates : setSelectedDate(date)
    \/ \E days \in {0 - 1, 1} : changedDate(selectedDate, days, timeZone) \in PageDates /\ changeDate(days)
    \/ SaveTimeoutFires
    \/ FadeTimeoutFires

\* The list, the flags, the timers and the storage on their own: the
\* auto-calculate effect reads the list and the bedtime and sets only the
\* state that is displayed, which no handler, timer or other effect reads.
PageInit == Mounted /\ NothingCalculated

PageNext == PageStep /\ UNCHANGED calculated

PageSpec == PageInit /\ [][PageNext]_vars

\* ---- the page with what it displays
\* The state the auto-calculate effect has set for the list loaded.
CalculatedOnMount ==
    LET validDrinks == ValidDrinks(drinks)
        halfLife == calculateAdjustedHalfLife(personalInfo, units)
    IN  IF Len(validDrinks) = 0 THEN NothingCalculated
        ELSE /\ adjustedHalfLife = halfLife
             /\ individualCutoffs =
                  calculateIndividualCutoffTimes(validDrinks, bedtime, halfLife)
             /\ dailyIntake = calculateDailyIntake(validDrinks)
             /\ warningMessage =
                  chosenWarning(checkForTypo(validDrinks),
                                getWarningMessage(
                                    calculateDailyIntake(validDrinks)))
             /\ result =
                  calculateTotalCaffeineAtBedtime(validDrinks, bedtime,
                                                  halfLife)
             /\ chartData =
                  generateChartData(validDrinks, bedtime, halfLife,
                                    chartHours)

DisplayInit == Mounted /\ CalculatedOnMount

\* The handlers that work on the drinks stored, each followed by the
\* auto-calculate effect on the list and the bedtime it has set.
DisplayStep ==
    \/ \E id \in DrinkIds : \E value \in DoseInputs : updateDrink(id, "dose", value)
    \/ \E id \in DrinkIds : startEditing(id)
    \/ \E id \in DrinkIds : cancelEditing(id)
    \/ \E id \in DrinkIds : handleDrinkDone(id)
    \/ \E id \in DrinkIds : handleDeleteDrink(id)
    \/ \E value \in BedtimeInputs : setBedtime(value)
    \/ \E date \in PageDates : setSelectedDate(date)
    \/ \E days \in {0 - 1, 1} : changedDate(selectedDate, days, timeZone) \in PageDates /\ changeDate(days)

DisplayNext ==
    \/ DisplayStep /\ autoCalculateEffect(drinks', bedtime')
    \/ (SaveTimeoutFires \/ FadeTimeoutFires) /\ UNCHANGED calculated

DisplaySpec == DisplayInit /\ [][DisplayNext]_vars

\* ================================================================ claims
ProfileComplete ==
    personalInfo.age # NoValue /\ personalInfo.sex # ""
    /\ personalInfo.weight # NoValue
Calculated == adjustedHalfLife # NoValue
ValidIndexes == {i \in 1..Len(drinks) : IsValidDrink(drinks[i])}
IsInstantaneous(d) ==
    d.endTimeString = NoValue \/ d.endTimeString = d.startTimeString
\* bedtimes every half hour, and the one entered
BedtimeSamples ==
    {b \in 0..(MinutesPerDay - 1) : b % 30 = 0} \cup ({bedtime} \ {NoValue})

\* ------------------------------------------------------------------- C1
\* The weight in kilograms is below / above a whole number of kilograms,
\* the weight in pounds being multiplied by 0.453592 first.
WeightBelowKg(kg) ==
    IF units.weight = "imperial"
    THEN personalInfo.weight * PoundsToKg < kg * 10 * WeightUnit
    ELSE personalInfo.weight < kg * 10
WeightAboveKg(kg) ==
    IF units.weight = "imperial"
    THEN personalInfo.weight * PoundsToKg > kg * 10 * WeightUnit
    ELSE personalInfo.weight > kg * 10
AgeAdjustment ==
    IF personalInfo.age > 50 THEN 60
    ELSE IF personalInfo.age >= 30 THEN 30 ELSE 0
WeightAdjustment ==
    IF WeightBelowKg(60) THEN 30 ELSE IF WeightAboveKg(90) THEN 0 - 30 ELSE 0
SexAdjustment == IF personalInfo.sex = "female" THEN 30 ELSE 0

\* C1: the adjusted half-life the effect stores is max(1 h, 5 h + ageAdj +
\* weightAdj + sexAdj), the three adjustments applied independently and
\* the weight converted from pounds before the 60 kg / 90 kg thresholds.
C1_AdjustedHalfLife ==
    Calculated =>
        adjustedHalfLife =
            Max(60, 300 + AgeAdjustment + WeightAdjustment + SexAdjustment)

\* An imperial profile that gets all three adjustments: 7 hours.
C1_Witness ==
    /\ adjustedHalfLife = 7 * MinutesPerHour
    /\ units.weight = "imperial"
    /\ WeightBelowKg(60) /\ ~(personalInfo.weight < 600)

\* ------------------------------------------------------------------- C2
\* C2: an instantaneous intake of dose D > 0 leaves D at t = 0 and
\* D * 0.5^(t/H) at t > 0 (exactly D / 2^k at t = k * H) and strictly less
\* each minute later, at bedtime (calculateCaffeineRemaining) and in the
\* sampled curve (calculateCaffeineCurve).
C2_InstantDecay ==
    Calculated =>
      \A i \in ValidIndexes :
        LET d == drinks[i]
            H == adjustedHalfLife
            start == d.startTimeString
            R(b) == calculateCaffeineRemaining(d.dose, b, H, start,
                                                d.endTimeString)
            curve == calculateCaffeineCurve(start, start, d.dose, H, 48)
        IN  (IsInstantaneous(d) /\ d.dose > 0) =>
              /\ \A b \in BedtimeSamples :
                   LET t == BedDate(b) - start
                   IN  /\ t = 0 => R(b) = d.dose * Scale
                       /\ t > 0 => R(b) = DoseTimesPow05(d.dose, t, H)
                       /\ (t >= 0 /\ t % H = 0) =>
                              R(b) * Pow2(t \div H) = d.dose * Scale
                       /\ (t >= 0 /\ b % 30 = 0) => R(b + 1) < R(b)
              /\ curve[1].caffeine = d.dose * Scale
              /\ \A k \in 2..Len(curve) :
                   LET t == (k - 1) * stepMinutes
                   IN  /\ curve[k].caffeine = DoseTimesPow05(d.dose, t, H)
                       /\ t % H = 0 =>
                              curve[k].caffeine * Pow2(t \div H)
                                = d.dose * Scale
                       /\ curve[k].caffeine < curve[k - 1].caffeine

\* 120 mg at 08:00, bedtime 23:00, half-life 5 h: three half-lives, 15 mg.
C2_Witness ==
    /\ adjustedHalfLife = 5 * MinutesPerHour
    /\ bedtime = Clock(23, 0)
    /\ Len(drinks) = 1 /\ drinks[1].dose = 120
    /\ drinks[1].startTimeString = Clock(8, 0)
    /\ IsInstantaneous(drinks[1])
    /\ result = 15 * Scale

\* ------------------------------------------------------------------- C3
\* C3: for an instantaneous or gradual intake, a bedtime that resolves to
\* an instant before the intake's start leaves exactly 0.
C3_ZeroBeforeStart ==
    ProfileComplete =>
      LET H == calculateAdjustedHalfLife(personalInfo, units)
      IN  /\ \A i \in ValidIndexes : \A b \in BedtimeSamples :
                BedDate(b) < drinks[i].startTimeString =>
                  calculateCaffeineRemaining(
                      drinks[i].dose, b, H, drinks[i].startTimeString,
                      drinks[i].endTimeString) = 0
          /\ (/\ result # NoValue
              /\ \A i \in ValidIndexes :
                    BedDate(bedtime) < drinks[i].startTimeString)
               => result = 0

\* A gradual intake 23:30-00:20 with bedtime 23:00, calculated.
C3_Witness ==
    /\ result = 0
    /\ \E i \in ValidIndexes :
          /\ ~IsInstantaneous(drinks[i])
          /\ drinks[i].dose > 0
          /\ BedDate(bedtime) < drinks[i].startTimeString

\* ------------------------------------------------------------------- C4
C4_HalfLife == calculateAdjustedHalfLife(personalInfo, units)
C4_ConcentrationAt(i) ==
    calculateCaffeineRemaining(drinks[i].dose, bedtime, C4_HalfLife,
                               drinks[i].startTimeString,
                               drinks[i].endTimeString)
RECURSIVE C4_Sum(_)
C4_Sum(I) ==
    IF I = {} THEN 0
    ELSE LET i == CHOOSE j \in I : TRUE
         IN  C4_ConcentrationAt(i) + C4_Sum(I \ {i})

\* C4: the total at bedtime is the sum of concentrationAt(bedtime) over
\* exactly the intakes that have a dose and a start time; the others add
\* nothing, and the total of an empty or all-invalid list is 0.
C4_TotalIsSumOfValid ==
    (ProfileComplete /\ bedtime # NoValue) =>
      LET total == calculateTotalCaffeineAtBedtime(drinks, bedtime,
                                                   C4_HalfLife)
      IN  /\ total = C4_Sum(ValidIndexes)
          /\ ValidIndexes = {} => total = 0
          /\ result # NoValue => result = C4_Sum(ValidIndexes)

\* A calculated list with two contributing intakes and one invalid entry
\* (bound permitting), or one contributing intake and one invalid entry.
C4_Witness ==
    /\ result # NoValue
    /\ \E i \in 1..Len(drinks) : ~IsValidDrink(drinks[i])
    /\ \E i \in ValidIndexes : C4_ConcentrationAt(i) > 0
    /\ result = C4_Sum(ValidIndexes)

\* ------------------------------------------------- the cutoff list
\* The valid intakes, in list order: entry i of individualCutoffs is about
\* CV[i].  Allowed(i) is 30 mg minus the total at bedtime of the valid
\* intakes other than i, floored at 0.
CV == ValidDrinks(drinks)
CV_ConcentrationAt(j) ==
    calculateCaffeineRemaining(CV[j].dose, bedtime, adjustedHalfLife,
                               CV[j].startTimeString, CV[j].endTimeString)
RECURSIVE CV_Sum(_)
CV_Sum(J) ==
    IF J = {} THEN 0
    ELSE LET j == CHOOSE x \in J : TRUE
         IN  CV_ConcentrationAt(j) + CV_Sum(J \ {j})
Allowed(i) == Max(0, 30 * Scale - CV_Sum((1..Len(CV)) \ {i}))
CutoffOf(i) == individualCutoffs[i].cutoffTime
CutoffsListed == Calculated /\ Len(individualCutoffs) = Len(CV)

AlreadyOverLimit == Text("Already over limit")
AnyTimeToday == Text("Any time today")
TooLateForToday == Text("Too late for today")
IsTimeOfDay(c) ==
    /\ c.text = "h:mm"
    /\ c.displayHours \in 1..12
    /\ c.displayMinutes \in 0..59
    /\ c.ampm \in {"AM", "PM"}
\* the clock time of an instant, as a 12-hour time of day
TimeOfDay(instant) ==
    LET m == instant % MinutesPerDay
        h == m \div 60
    IN  [text |-> "h:mm",
         displayHours |-> IF h = 0 THEN 12 ELSE IF h > 12 THEN h - 12 ELSE h,
         displayMinutes |-> m % 60,
         ampm |-> IF h < 12 THEN "AM" ELSE "PM"]

\* ------------------------------------------------------------------- C5
\* C5: an intake whose allowed contribution is <= 0 gets "Already over
\* limit", not a time formatted from log2(dose / 0).
C5_AlreadyOverLimit ==
    Calculated =>
      /\ Len(individualCutoffs) = Len(CV)
      /\ \A i \in 1..Len(CV) :
            Allowed(i) <= 0 => CutoffOf(i) = AlreadyOverLimit

\* 200 mg at 22:00 uses the whole budget of another intake with a dose.
C5_Witness ==
    /\ CutoffsListed
    /\ \E i \in 1..Len(CV) :
          /\ CV[i].dose > 0
          /\ Allowed(i) = 0
          /\ CutoffOf(i) = AlreadyOverLimit

\* ------------------------------------------------------------------- C6
HalfLifeSamples == {270, 300, 330, 360, 390, 420}

\* C6: an intake with dose <= allowed and allowed > 0 gets "Any time
\* today", and so does the solver for any bedtime and half-life.
C6_AnyTimeToday ==
    Calculated =>
      /\ Len(individualCutoffs) = Len(CV)
      /\ \A i \in 1..Len(CV) :
            (Allowed(i) > 0 /\ CV[i].dose * Scale <= Allowed(i)) =>
               /\ CutoffOf(i) = AnyTimeToday
               /\ \A b \in BedtimeSet, H \in HalfLifeSamples :
                     \A allowed \in {CV[i].dose * Scale, Allowed(i)} :
                        allowed > 0 =>
                          calculateLatestSafeIntakeTime(
                              b, H, CV[i].dose, allowed) = AnyTimeToday

\* A dose equal to the whole 30 mg budget.
C6_Witness ==
    /\ CutoffsListed
    /\ \E i \in 1..Len(CV) :
          /\ CV[i].dose * Scale = Allowed(i)
          /\ CV[i].dose = 30
          /\ CutoffOf(i) = AnyTimeToday

C8_AllowedContribution ==
    Calculated =>
      /\ Len(individualCutoffs) = Len(CV)
      /\ \A i \in 1..Len(CV) :
            CutoffOf(i) =
               IF Allowed(i) > 0
               THEN calculateLatestSafeIntakeTime(
                        bedtime, adjustedHalfLife, CV[i].dose, Allowed(i))
               ELSE AlreadyOverLimit

\* An intake that itself leaves something at bedtime and whose allowance
\* is reduced, not exhausted, by another intake.
C8_Witness ==
    /\ CutoffsListed
    /\ \E i \in 1..Len(CV) :
          /\ CV_ConcentrationAt(i) > 0
          /\ Allowed(i) > 0 /\ Allowed(i) < 30 * Scale
          /\ IsTimeOfDay(CutoffOf(i))

\* ------------------------------------------------------------------- C9
\* concentrationAt(bedtime) of an instantaneous intake started today at
\* the given minute
C9_LeftFrom(i, startMinute) ==
    calculateCaffeineRemaining(CV[i].dose, bedtime, adjustedHalfLife,
                               startMinute, NoValue)

\* C9: when dose > allowed > 0 the cutoff is m minutes before bedtime,
\* with dose * 0.5^(m/H) = allowed to the minute (the dose leaves at most
\* the allowance from m minutes on and more one minute later); dose =
\* allowed * 2^k gives m = k * H exactly.  The text is that instant's
\* clock time, or "Too late for today" when the instant is before now.
C9_CutoffInstant ==
    Calculated =>
      /\ Len(individualCutoffs) = Len(CV)
      /\ \A i \in 1..Len(CV) :
           LET dose == CV[i].dose
               H == adjustedHalfLife
               bed == BedDate(bedtime)
               c == CutoffOf(i)
           IN  (dose * Scale > Allowed(i) /\ Allowed(i) > 0) =>
                 /\ c # TooLateForToday =>
                      \E m \in 1..bed :
                         /\ bed - m >= now
                         /\ c = TimeOfDay(bed - m)
                         /\ DoseTimesPow05(dose, m, H) <= Allowed(i)
                         /\ DoseTimesPow05(dose, m - 1, H) > Allowed(i)
                         /\ bed - m < MinutesPerDay - 1 =>
                              /\ C9_LeftFrom(i, bed - m) <= Allowed(i)
                              /\ C9_LeftFrom(i, bed - m + 1) > Allowed(i)
                         /\ (bed - m < MinutesPerDay /\ bed - m > 0) =>
                              C9_LeftFrom(i, bed - m - 1)
                                < C9_LeftFrom(i, bed - m)
                 /\ c = TooLateForToday =>
                      \/ bed < now
                      \/ DoseTimesPow05(dose, bed - now, H) > Allowed(i)
                 /\ \A k \in 1..5 :
                      dose * Scale = Allowed(i) * Pow2(k) =>
                        /\ c = IF bed - k * H < now THEN TooLateForToday
                               ELSE TimeOfDay(bed - k * H)
                        /\ (bed - k * H >= 0 /\ bed - k * H < MinutesPerDay)
                             => C9_LeftFrom(i, bed - k * H) = Allowed(i)

\* 120 mg against the whole budget of 30 mg: two half-lives before
\* bedtime, shown as a time of day.
C9_Witness ==
    /\ CutoffsListed
    /\ \E i \in 1..Len(CV) :
          /\ CV[i].dose = 120 /\ Allowed(i) = 30 * Scale
          /\ CutoffOf(i) = TimeOfDay(BedDate(bedtime) - 2 * adjustedHalfLife)
          /\ BedDate(bedtime) - 2 * adjustedHalfLife >= now

\* ------------------------------------------------------------------ C10
\* the bedtime instant and the elapsed time from a start, by the rule
C10_Bed == IF bedtime \div 60 < 12 THEN bedtime + 24 * 60 ELSE bedtime
C10_Elapsed(start) == C10_Bed - start
C10_Left(d) ==
    IF C10_Elapsed(d.startTimeString) < 0 THEN 0
    ELSE DoseTimesPow05(d.dose, C10_Elapsed(d.startTimeString),
                        adjustedHalfLife)
RECURSIVE C10_Sum(_)
C10_Sum(J) ==
    IF J = {} THEN 0
    ELSE LET j == CHOOSE x \in J : TRUE
         IN  C10_Left(CV[j]) + C10_Sum(J \ {j})

\* C10: a bedtime with hour < 12 is on the next day, any other on the day
\* of the intakes, in the per-intake amount, in the total and in the
\* cutoff: the elapsed time from a start S is bedtime + 24 h - S or
\* bedtime - S.
C10_BedtimeDay ==
    Calculated =>
      /\ \A i \in 1..Len(CV) :
            IsInstantaneous(CV[i]) => CV_ConcentrationAt(i) = C10_Left(CV[i])
      /\ (\A i \in 1..Len(CV) : IsInstantaneous(CV[i])) =>
            result = C10_Sum(1..Len(CV))
      /\ Len(individualCutoffs) = Len(CV)
      /\ \A i \in 1..Len(CV) :
            (CV[i].dose * Scale > Allowed(i) /\ Allowed(i) > 0) =>
               LET m == hoursBeforeBedMinutes(adjustedHalfLife, CV[i].dose,
                                              Allowed(i))
               IN  CutoffOf(i) = IF C10_Bed - m < now THEN TooLateForToday
                                 ELSE TimeOfDay(C10_Bed - m)

\* A bedtime before noon, after an intake that still leaves something and
\* gets a time of day.
C10_Witness ==
    /\ CutoffsListed
    /\ bedtime \div 60 < 12
    /\ result > 0
    /\ \E i \in 1..Len(CV) :
          IsInstantaneous(CV[i]) /\ IsTimeOfDay(CutoffOf(i))

\* ------------------------------------------------------------------ C11
\* the chart horizon of the stored chart, and the stored series of the
\* i-th valid intake
ChartStored == chartData # NoChart
ChartHorizon == Len(chartData.labels) - 1
SeriesOf(i) == chartData.datasets[i].data
CrossesMidnight(d) ==
    d.endTimeString # NoValue /\ d.endTimeString < d.startTimeString
\* the window of an intake whose end is before its start
C11_Duration(d) == d.endTimeString + 24 * 60 - d.startTimeString

\* target times of day: every third hour, the start of the intake and the
\* bedtime entered
C11_Targets(d) ==
    {b \in BedtimeSamples : b % 180 = 0} \cup {d.startTimeString}
    \cup ({bedtime} \ {NoValue})

\* C11: an intake whose end time of day precedes its start has the
\* absorption window end + 24 h - start: the amount at any bedtime at or
\* after the start is the sample of the curve with that window (the first
\* sample being dose / window * 10 min), and its charted series is the
\* curve with that window.
C11_MidnightWindow ==
    Calculated =>
      /\ Len(chartData.datasets) = Len(CV)
      /\ \A i \in 1..Len(CV) :
           LET d == CV[i]
               start == d.startTimeString
               D == C11_Duration(d)
               H == adjustedHalfLife
               curve == calculateCaffeineCurve(start, start + D, d.dose,
                                               H, 48)
           IN  (CrossesMidnight(d) /\ D > 1) =>
                 /\ \A b \in C11_Targets(d) :
                      LET t == BedDate(b) - start
                          R == calculateCaffeineRemaining(
                                   d.dose, b, H, start, d.endTimeString)
                      IN  /\ (t >= 0 /\ t < 10) =>
                               R = MulDiv(d.dose * Scale, 10, D)
                          /\ t >= 0 => R = curve[(t \div 10) + 1].caffeine
                 /\ SeriesOf(i) =
                      ChartSeries(calculateCaffeineCurve(
                                      start, start + D, d.dose, H,
                                      ChartHorizon),
                                  start, ChartHorizon)

\* 23:30 to 00:20 with bedtime 01:00: a window of 50 minutes, charted and
\* still present at bedtime.
C11_Witness ==
    /\ Calculated /\ ChartStored
    /\ result > 0
    /\ \E i \in 1..Len(CV) :
          /\ CrossesMidnight(CV[i])
          /\ C11_Duration(CV[i]) = 50
          /\ BedDate(bedtime) > CV[i].startTimeString
          /\ \E g \in 1..Len(SeriesOf(i)) : SeriesOf(i)[g] > 0

\* ------------------------------------------------------------------ C12
\* the absorption window of an intake in minutes: 0 without an end time
Window(d) ==
    IF d.endTimeString = NoValue THEN 0
    ELSE IF d.endTimeString < d.startTimeString
         THEN d.endTimeString + 24 * 60 - d.startTimeString
         ELSE d.endTimeString - d.startTimeString
\* the series of an intake charted as instantaneous / as gradual
InstantSeries(d) ==
    ChartSeries(calculateCaffeineCurve(d.startTimeString, d.startTimeString,
                                       d.dose, adjustedHalfLife,
                                       ChartHorizon),
                d.startTimeString, ChartHorizon)
GradualSeries(d) ==
    ChartSeries(calculateCaffeineCurve(d.startTimeString,
                                       d.startTimeString + Window(d),
                                       d.dose, adjustedHalfLife,
                                       ChartHorizon),
                d.startTimeString, ChartHorizon)
\* the amount at bedtime of an intake taken as instantaneous / as gradual
InstantAtBed(d) ==
    LET t == BedDate(bedtime) - d.startTimeString
    IN  IF t < 0 THEN 0 ELSE DoseTimesPow05(d.dose, t, adjustedHalfLife)
GradualAtBed(d) ==
    LET t == BedDate(bedtime) - d.startTimeString
    IN  IF t < 0 THEN 0
        ELSE calculateCaffeineCurve(d.startTimeString,
                                    d.startTimeString + Window(d), d.dose,
                                    adjustedHalfLife, 48)
               [(t \div 10) + 1].caffeine

\* C12: an intake with a window of at most 1 minute is instantaneous and
\* every other intake gradual, in the amount at bedtime and in the charted
\* series alike.
C12_SameRegime ==
    Calculated =>
      /\ Len(chartData.datasets) = Len(CV)
      /\ \A i \in 1..Len(CV) :
           IF Window(CV[i]) <= 1
           THEN /\ CV_ConcentrationAt(i) = InstantAtBed(CV[i])
                /\ SeriesOf(i) = InstantSeries(CV[i])
           ELSE /\ CV_ConcentrationAt(i) = GradualAtBed(CV[i])
                /\ SeriesOf(i) = GradualSeries(CV[i])

\* ------------------------------------------------------------------ C13
WindowSamples == {10, 30, 45, 50, 60, 120}
C13_Decay(c) == MulFix(c, Pow05(10, adjustedHalfLife))
C13_Intake(dose, W) == MulDiv(dose * Scale, 10, W)
\* the sample at offset 10 k of a window W is inside the window: before
\* its end, or also at its end when the window is read as closed
C13_Inside(k, W, closedEnd) ==
    10 * k < W \/ (closedEnd /\ 10 * k = W)
\* the curve follows the recurrence from 0
C13_Recurrence(curve, dose, W, closedEnd) ==
    \A k \in 0..(Len(curve) - 1) :
       LET previous == IF k = 0 THEN 0 ELSE curve[k].caffeine
       IN  curve[k + 1].caffeine =
             IF C13_Inside(k, W, closedEnd)
             THEN C13_Decay(previous) + C13_Intake(dose, W)
             ELSE C13_Decay(previous)

\* C13: the curve of a gradual intake starts from 0 and follows c_k =
\* c_(k-1) * 0.5^(step/H) + dose/window * step while the offset of the
\* sample is inside the window and c_k = c_(k-1) * 0.5^(step/H) after it
\* (with one reading of "inside" for the sample at the very end of the
\* window, whichever it is), for the window of each gradual intake and for
\* the sample windows; the amount at bedtime and the charted series are
\* taken from that curve.
C13_GradualRecurrence ==
    Calculated =>
      \E closedEnd \in BOOLEAN :
        \A i \in 1..Len(CV) :
          LET d == CV[i]
              start == d.startTimeString
              H == adjustedHalfLife
          IN  Window(d) > 1 =>
                /\ \A W \in {Window(d)} \cup WindowSamples :
                      C13_Recurrence(
                          calculateCaffeineCurve(start, start + W, d.dose,
                                                 H, 48),
                          d.dose, W, closedEnd)
                /\ CV_ConcentrationAt(i) = GradualAtBed(d)
                /\ SeriesOf(i) = GradualSeries(d)

\* ------------------------------------------------------------------ C14
\* target times of day: 02:00, 10:00 and 18:00, five minutes after each,
\* and the bedtime entered
C14_Targets ==
    LET some == {b \in BedtimeSamples : b % 480 = 120}
    IN  some \cup {b + 5 : b \in some} \cup ({bedtime} \ {NoValue})
\* the last point of a curve whose time is at or before an instant
C14_LastAtOrBefore(curve, instant) ==
    LET atOrBefore == {j \in 1..Len(curve) : curve[j].time <= instant}
    IN  CHOOSE j \in atOrBefore : \A other \in atOrBefore : other <= j

\* C14: for a gradual intake and a target at or after its start,
\* calculateCaffeineRemaining returns the caffeine of the last point of the
\* 48-hour curve whose time is at or before the target, so the same value
\* for every target up to the next point.
C14_StepHold ==
    Calculated =>
      \A i \in 1..Len(CV) :
        LET d == CV[i]
            start == d.startTimeString
            curve == calculateCaffeineCurve(start, start + Window(d),
                                            d.dose, adjustedHalfLife, 48)
            R(b) == calculateCaffeineRemaining(d.dose, b, adjustedHalfLife,
                                               start, d.endTimeString)
        IN  Window(d) > 1 =>
              \A b \in C14_Targets :
                 BedDate(b) >= start =>
                   LET j == C14_LastAtOrBefore(curve, BedDate(b))
                   IN  /\ R(b) = curve[j].caffeine
                       /\ curve[j].time <= BedDate(b)
                       /\ j < Len(curve) => curve[j + 1].time > BedDate(b)

\* A gradual intake and a bedtime strictly between two points of its curve
\* that differ: the earlier one is the result.
C14_Witness ==
    /\ Calculated
    /\ Len(CV) = 1 /\ Window(CV[1]) > 1
    /\ LET start == CV[1].startTimeString
           t == BedDate(bedtime) - start
           curve == calculateCaffeineCurve(start, start + Window(CV[1]),
                                           CV[1].dose, adjustedHalfLife, 48)
       IN  /\ t > 0 /\ t % 10 # 0
           /\ result = curve[(t \div 10) + 1].caffeine
           /\ result > curve[(t \div 10) + 2].caffeine

\* ------------------------------------------------------------------ C15
\* an intake of the list, valid or not, has an end time before noon
C15_EndsBeforeNoon(d) ==
    d.endTimeString # NoValue /\ d.endTimeString \div 60 < 12
C15_Horizon ==
    IF \/ bedtime \div 60 < 12
       \/ \E i \in 1..Len(drinks) : C15_EndsBeforeNoon(drinks[i])
    THEN 48 ELSE 24

AxisInstant(g) == g * 60

\* C16: in the charted series of every intake, every point of the axis
\* that lies before the intake's start has concentration 0.
C16_ZeroBeforeStartOnChart ==
    ChartStored =>
      \A i \in 1..Len(chartData.datasets) :
        \A g \in 0..ChartHorizon :
           AxisInstant(g) < CV[i].startTimeString => SeriesOf(i)[g + 1] = 0

\* ------------------------------------------------------------------ C17
\* the daily total: the doses of the intakes with a dose and a start time
RECURSIVE DoseSum(_)
DoseSum(I) ==
    IF I = {} THEN 0
    ELSE LET i == CHOOSE j \in I : TRUE
         IN  drinks[i].dose + DoseSum(I \ {i})
Classified == dailyIntake # 0
\* some valid intake has a dose above 5000 mg
TypoSuspected == \E i \in ValidIndexes : drinks[i].dose > 5000
C17_Class(total) ==
    IF total < 600 THEN "null"
    ELSE IF total < 1000 THEN "caution" ELSE "danger"
C17_Totals == {0, 500, 599, 600, 700, 999, 1000, 1200}

\* C17: the daily warning of a total is none below 600 mg, caution from
\* 600 mg to below 1000 mg and danger from 1000 mg on; the total is the
\* sum of the doses of the valid intakes, and its class is the warning
\* stored unless a typo is suspected.
C17_DailyWarning ==
    /\ \A total \in C17_Totals \cup {DoseSum(ValidIndexes)} :
          /\ getWarningMessage(total).type = C17_Class(total)
          /\ total < 600 => getWarningMessage(total) = NoWarning
    /\ Classified =>
          /\ dailyIntake = DoseSum(ValidIndexes)
          /\ ~TypoSuspected => warningMessage.type = C17_Class(dailyIntake)

\* Two intakes that reach exactly 1000 mg together: danger, each of them
\* alone being below it.
C17_Witness ==
    /\ Classified
    /\ dailyIntake = 1000
    /\ Len(drinks) > 1
    /\ warningMessage.type = "danger"

\* ------------------------------------------------------------------ C18
\* C18: the typo check returns a suggestion exactly when some valid intake
\* has a dose above 5000 mg; the suggestion is the dose of such an intake
\* divided by 100 and rounded to the nearest whole number, and it is the
\* warning stored.
C18_TypoSuspect ==
    LET typo == checkForTypo(ValidDrinks(drinks))
    IN  /\ typo # NoWarning <=> TypoSuspected
        /\ typo # NoWarning =>
             /\ typo.type = "typo"
             /\ \E i \in ValidIndexes :
                   /\ drinks[i].dose > 5000
                   /\ typo.dose = drinks[i].dose
                   /\ 100 * typo.suggestedDose - 50 <= drinks[i].dose
                   /\ drinks[i].dose < 100 * typo.suggestedDose + 50
        /\ (Classified /\ TypoSuspected) => warningMessage = typo
        /\ (Classified /\ ~TypoSuspected) => warningMessage.type # "typo"

\* 6000 mg after an intake of exactly 5000 mg: 60 mg is suggested.
C18_Witness ==
    /\ Classified
    /\ Len(drinks) = 2
    /\ drinks[1].dose = 5000 /\ drinks[2].dose = 6000
    /\ warningMessage.type = "typo"
    /\ warningMessage.suggestedDose = 60

\* ------------------------------------------------------------------ C19
\* C19: every result is a function of the inputs alone: an evaluation
\* with the same profile, units, bedtime and drinks as the one before
\* gives the same half-life, cutoffs, total, warning and chart, whatever
\* the wall-clock time of each.
C19_ClockIndependent ==
    [][(/\ Calculated /\ Calculated'
        /\ UNCHANGED << personalInfo, units, bedtime, drinks >>)
       => /\ adjustedHalfLife' = adjustedHalfLife
          /\ individualCutoffs' = individualCutoffs
          /\ dailyIntake' = dailyIntake
          /\ warningMessage' = warningMessage
          /\ result' = result
          /\ chartData' = chartData]_vars

\* ------------------------------------------------------------------ C20
\* the orders of a list of n intakes, and the list in one of them
Orders(n) ==
    {p \in [1..n -> 1..n] : \A i, j \in 1..n : p[i] = p[j] => i = j}
Reordered(list, p) == [i \in 1..Len(list) |-> list[p[i]]]
\* the cutoff entry of the valid intake at place i of a list
C20_CutoffAt(list, i) ==
    calculateIndividualCutoffTimes(ValidDrinks(list), bedtime,
                                   adjustedHalfLife)
      [Cardinality({j \in 1..i : IsValidDrink(list[j])})]

\* C20: for every order of the intake list the daily warning class and
\* the typo suggestion are the same and, once calculated, so are the
\* total at bedtime and the cutoff of each intake.
C20_OrderIndependent ==
    \A p \in Orders(Len(drinks)) :
      LET list == Reordered(drinks, p)
      IN  /\ getWarningMessage(calculateDailyIntake(ValidDrinks(list)))
               = getWarningMessage(calculateDailyIntake(ValidDrinks(drinks)))
          /\ checkForTypo(ValidDrinks(list)) = checkForTypo(ValidDrinks(drinks))
          /\ Calculated =>
               /\ calculateTotalCaffeineAtBedtime(list, bedtime,
                                                  adjustedHalfLife) = result
               /\ \A i \in 1..Len(list) :
                     IsValidDrink(list[i]) =>
                       C20_CutoffAt(list, i) = C20_CutoffAt(drinks, p[i])

\* ------------------------------------------ doses of the threshold and below
\* The dose field accepts any number while a drink is edited, and the
\* effect runs on every change of the list: '0' and '-50' are non-empty
\* strings, so such a drink is a valid drink of the calculation.
LowDoseDrinkSet ==
    { Drink("Decaf", 0, Clock(8, 0), NoValue),
      Drink("Decaf slow", 0, Clock(14, 0), Clock(14, 45)),
      Drink("Minus", 0 - 50, Clock(8, 0), NoValue),
      Drink("Minus slow", 0 - 50, Clock(22, 0), Clock(22, 45)),
      Drink("Coffee", 120, Clock(8, 0), Clock(8, 0)),
      Drink("Tea", 30, Clock(22, 0), NoValue),
      Drink("Cocoa", 30, Clock(23, 30), Clock(0, 20)) }

PolicyInit ==
    /\ personalInfo = Profile(29, "male", 700)
    /\ units = [weight |-> "metric"]
    /\ bedtime \in {Clock(1, 0), Clock(23, 0)}
    /\ drinks \in SeqsUpTo(LowDoseDrinkSet, MaxDrinks)
    /\ now = Clock(6, 0)
    /\ adjustedHalfLife = NoValue
    /\ individualCutoffs = << >>
    /\ dailyIntake = 0
    /\ warningMessage = NoWarning
    /\ result = NoValue
    /\ chartData = NoChart
    /\ FreshPage

PolicyNext == AutoCalculate

PolicySpec == PolicyInit /\ [][PolicyNext]_vars

PositiveDrinks(drinkList) ==
    FilterSeq(drinkList, [i \in 1..Len(drinkList) |-> drinkList[i].dose > 0])

\* C21: an intake whose dose is <= 0 contributes nothing: the total at
\* bedtime and the daily intake are those of the valid drinks with a
\* positive dose, and every chart sample of such an intake is 0.
C21_ZeroContribution ==
    Calculated =>
      LET valid == ValidDrinks(drinks)
          positive == PositiveDrinks(valid)
      IN  /\ result = calculateTotalCaffeineAtBedtime(positive, bedtime,
                                                      adjustedHalfLife)
          /\ dailyIntake = calculateDailyIntake(positive)
          /\ \A i \in 1..Len(valid) :
               valid[i].dose <= 0 =>
                 \A g \in 1..Len(SeriesOf(i)) : SeriesOf(i)[g] = 0

\* C24: an intake never contributes more than its dose: no sample of its
\* chart series and no amount left at the bedtime is above the dose.
C24_AtMostDose ==
    Calculated /\ ChartStored =>
      \A i \in 1..Len(CV) :
        CV[i].dose > 0 =>
          /\ \A g \in 1..Len(SeriesOf(i)) :
               SeriesOf(i)[g] <= CV[i].dose * Scale
          /\ calculateCaffeineRemaining(CV[i].dose, bedtime,
                 adjustedHalfLife, CV[i].startTimeString,
                 CV[i].endTimeString) <= CV[i].dose * Scale

\* C25: whenever the cutoff listed for an intake is "Any time today", the
\* total at bedtime over all valid intakes is at most the 30 mg threshold.
C25_AnyTimeMeansSafe ==
    CutoffsListed =>
      \A i \in 1..Len(CV) :
        CutoffOf(i) = AnyTimeToday => result <= safeSleepThreshold * Scale

\* ---- what the results card shows

\* The results of the current inputs: the six values the auto-calculate
\* effect sets from the valid drinks, the bedtime and the profile on the page.
ResultShown == result # NoValue
CutoffsShown == result # NoValue /\ Len(individualCutoffs) > 0
ChartShown == chartData # NoChart

\* C26: a bedtime total, a cutoff list or a chart that is displayed is the
\* one computed from the current valid drinks, the current bedtime and the
\* current profile; none is left over from deleted drinks, a cleared bedtime
\* or another date.
C26_DisplayedIsCurrent ==
    LET validDrinks == ValidDrinks(drinks)
        halfLife == calculateAdjustedHalfLife(personalInfo, units)
    IN  /\ ResultShown =>
              /\ CanCalculate
              /\ result = calculateTotalCaffeineAtBedtime(validDrinks, bedtime,
                                                          halfLife)
        /\ CutoffsShown =>
              /\ CanCalculate
              /\ individualCutoffs =
                   calculateIndividualCutoffTimes(validDrinks, bedtime,
                                                  halfLife)
        /\ ChartShown =>
              /\ CanCalculate
              /\ chartData = generateChartData(validDrinks, bedtime, halfLife,
                                               chartHours)

\* ---- edit mode, stored entries and the debounced save

SomeDrinkEditing == \E i \in 1..Len(drinks) : drinks[i].isEditing

\* C28: isActivelyEditing is true exactly when some drink of the list is in
\* edit mode.
C28_FlagIffEditing == isActivelyEditing <=> SomeDrinkEditing

\* The stored entry a logged drink's loggedIndex addresses (loggedIndex
\* counts from 0), if there is one.
IndexInRange(drink) ==
    /\ drink.loggedIndex >= 0
    /\ drink.loggedIndex < Len(loadDailyData(localStorage, selectedDate))
AddressedEntry(drink) ==
    loadDailyData(localStorage, selectedDate)[drink.loggedIndex + 1]

\* C27: the loggedIndex of every logged drink of the list addresses that
\* drink's own entry among the entries stored for the selected date.
C27_IndexAddressesOwnEntry ==
    \A i \in 1..Len(drinks) :
        drinks[i].isLogged =>
            /\ IndexInRange(drinks[i])
            /\ AddressedEntry(drinks[i]).name = drinks[i].name
            /\ AddressedEntry(drinks[i]).startTimeString =
                  drinks[i].startTimeString

\* The entries stored for each date, whatever their order.
StoredEntrySet(store) ==
    [d \in DOMAIN store.daily |->
        {store.daily[d][i] : i \in 1..Len(store.daily[d])}]

\* C22: while a drink is in edit mode the stored daily data changes only
\* (the entries of a date, whatever their order) by a handler that takes a
\* drink out of the list or out of edit mode (Done, Delete); no other step,
\* the debounced save included, writes it.
C22_OnlyDonePersists ==
    [][(SomeDrinkEditing /\ StoredEntrySet(localStorage') # StoredEntrySet(localStorage))
          => drinks' # drinks]_vars

\* The handlers that work on the drinks stored and the two timers, without
\* the results: the list only gets shorter, so every date change happens
\* with a save of the stored drinks pending, due or done.
SaveInit == Mounted /\ NothingCalculated
SaveNext ==
    /\ DisplayStep \/ SaveTimeoutFires \/ FadeTimeoutFires
    /\ UNCHANGED calculated
SaveSpec == SaveInit /\ [][SaveNext]_vars

\* C29: every pending debounced save was scheduled with the list and the
\* date now on the page, so none writes the drinks of the date selected
\* before under the key of the date selected now.
C29_PendingSaveIsCurrent ==
    \A t \in saveTimeout :
        /\ t.selectedDate = selectedDate
        /\ t.drinks = drinks

\* a save is pending on another date than the one the page mounted with,
\* whose valid drinks are still stored
C29_Witness ==
    /\ selectedDate # Today
    /\ saveTimeout # {}
    /\ Len(ValidDrinks(loadedDrinks(localStorage, Today))) > 0

\* ---- the first visit: nothing is stored
\* The page after the mount effect and the first run of the date-load
\* effect on an empty storage: no profile, no bedtime, one empty drink in
\* edit mode.
FirstVisit(date, zone) ==
    /\ personalInfo = Profile(NoValue, "", NoValue)
    /\ units = [weight |-> "metric"]
    /\ bedtime = NoValue
    /\ now = Clock(6, 0)
    /\ selectedDate = date
    /\ timeZone = zone
    /\ localStorage = EmptyStorage
    /\ recentDrinks = loadRecentDrinks(localStorage)
    /\ drinks = loadedDrinks(localStorage, selectedDate)
    /\ isActivelyEditing = FALSE
    /\ isTransitioning = TRUE
    /\ fadeTimeout = TRUE
    /\ saveTimeout = {}
    /\ NothingCalculated

\* ---- recently used drinks
\* Every drink of the database is chosen for the drink of the list, again
\* and again; the timers run as on every page.
RecentInit == FirstVisit(Today, 0)
RecentNext ==
    /\ \/ \E id \in DrinkIds : \E db \in drinksDatabase : handleDrinkSelection(id, db.name)
       \/ SaveTimeoutFires
       \/ FadeTimeoutFires
    /\ UNCHANGED calculated
RecentSpec == RecentInit /\ [][RecentNext]_vars

RecentNames(list) == {list[i].name : i \in 1..Len(list)}
PositionOf(list, name) == CHOOSE i \in 1..Len(list) : list[i].name = name

\* C23: starting from an empty list, after every selection the list of
\* recent drinks has at most five entries, no two of the same name, the
\* drink selected last in front and the others in the order they had; the
\* list stored is the list returned.
C23_RecentList ==
    [][/\ Len(recentDrinks') <= 5
       /\ \A i, j \in 1..Len(recentDrinks') :
             recentDrinks'[i].name = recentDrinks'[j].name => i = j
       /\ loadRecentDrinks(localStorage') = recentDrinks'
       /\ recentDrinks' # recentDrinks =>
             /\ \E i \in 1..Len(drinks') :
                   /\ drinks'[i].name = recentDrinks'[1].name
                   /\ drinks'[i].dose = recentDrinks'[1].caffeine
             /\ \A a, b \in RecentNames(Tail(recentDrinks')) :
                   /\ a \in RecentNames(recentDrinks)
                   /\ PositionOf(recentDrinks', a) < PositionOf(recentDrinks', b)
                        => PositionOf(recentDrinks, a) < PositionOf(recentDrinks, b)
      ]_vars

\* the list is full, with the drink chosen last in front
C23_Witness ==
    /\ Len(recentDrinks) = 5
    /\ \E i \in 1..Len(drinks) : drinks[i].name = recentDrinks[1].name
    /\ loadRecentDrinks(localStorage) = recentDrinks

\* ---- the date arrows
\* Browsers in six time zones (minutes east of UTC); the arrows are clicked
\* on a first visit, within the days 0..MaxDay.
TimeZones == {0 - 720, 0 - 300, 0, 60, 330, 840}
DateInit == \E date \in 1..(MaxDay - 1) : \E zone \in TimeZones : FirstVisit(date, zone)
DateNext ==
    /\ \/ \E days \in {0 - 1, 1} : changedDate(selectedDate, days, timeZone) \in 0..MaxDay /\ changeDate(days)
       \/ FadeTimeoutFires
    /\ UNCHANGED calculated
DateSpec == DateInit /\ [][DateNext]_vars

\* C30: changeDate(k) selects the date exactly k calendar days from the
\* selected one, in every time zone, and changeDate(1) followed by
\* changeDate(-1) selects the date it started from.
C30_MovesByWholeDays ==
    /\ \A k \in {0 - 1, 1} :
          changedDate(selectedDate, k, timeZone) = selectedDate + k
    /\ changedDate(changedDate(selectedDate, 1, timeZone), 0 - 1, timeZone)
          = selectedDate

====
